---- MODULE Spec2Model ----
(***************************************************************************)
(* Session state machine of the Quran recitation bot.                      *)
(*                                                                         *)
(* One user's session lives in the key-value store (state key and four    *)
(* data keys).  Every inbound update is handled by Bot.handleUpdate; the   *)
(* handler is modelled as a little program whose steps are its I/O calls   *)
(* (store get/set/delete, audio download, gateway submit).  Each I/O call  *)
(* may fail.  Spec runs one update at a time, to completion; SpecConc runs *)
(* two updates of the same user as interleaved tasks; SpecLoop runs the    *)
(* receive loop of Bot.Start for two users, up to shutdown.                *)
(*                                                                         *)
(* Strings are sequences of one-character strings.                         *)
(***************************************************************************)
EXTENDS Integers, Sequences, FiniteSets, TLC

VARIABLES store, last, tasks, base, peerStore, loop, call, ttl

vars == <<store, last, tasks, base, peerStore, loop, call, ttl>>

(***************************************************************************)
(* Bounds of the model                                                     *)
(***************************************************************************)
\* how many surahs of the table are modelled
NumSurahs == 2
\* how many I/O calls may fail while one update is handled
MaxFails == 1
\* how many recordings the gateway returns at most for one user's history
MaxRecordings == 6
\* how many items a list of the gateway's answer holds at most (operations,
\* per-ayah results)
MaxItems == 2
\* the surah and ayah numbers that are encoded into ayah ids
MaxSurah == 114
MaxAyah == 286
\* how long the strings given to parseAyahID are at most
MaxLocatorLen == 7
\* defaultTTL (24 hours) counted in ticks of the clock
TTLTicks == 3

\* longest ayah number typed or keyed in the comparison of the two entry paths
MaxEntryLen == 4

(***************************************************************************)
(* domain: states, session keys, languages, surah table                    *)
(***************************************************************************)
StateStart == "start"
StateSelectSurah == "select_surah"
StateEnterAyah == "enter_ayah"
StateWaitRecording == "wait_recording"
StateWaitAutoDetect == "wait_auto_detect"
StateProcessing == "processing"

States ==
  {StateStart, StateSelectSurah, StateEnterAyah, StateWaitRecording,
   StateWaitAutoDetect, StateProcessing}

SessionKeySurah == "surah"
SessionKeyAyah == "ayah"
SessionKeyAyahInput == "ayah_input"
SessionKeyLanguage == "language"
StateKey == "state"

DataKeys == {SessionKeySurah, SessionKeyAyah, SessionKeyAyahInput, SessionKeyLanguage}

LangEnglish == <<"e", "n">>
LangArabic == <<"a", "r">>
LangRussian == <<"r", "u">>

\* Number of ayahs of the first surahs (Al-Fatiha, Al-Baqara, Al-Imran, ...)
SurahAyahs == <<7, 286, 200, 176>>

GetAllSurahs == SubSeq(SurahAyahs, 1, NumSurahs)

\* recordings shown on one page of the history list
itemsPerPage == 5

(***************************************************************************)
(* strconv.Atoi, strconv.Itoa, fmt %03d                                    *)
(***************************************************************************)
DigitChars == <<"0", "1", "2", "3", "4", "5", "6", "7", "8", "9">>

IsDigit(c) == \E i \in 1..10 : DigitChars[i] = c

DigitVal(c) == (CHOOSE i \in 1..10 : DigitChars[i] = c) - 1

RECURSIVE DigitsValue(_)
DigitsValue(s) ==
  IF s = <<>> THEN 0
  ELSE DigitsValue(SubSeq(s, 1, Len(s) - 1)) * 10 + DigitVal(s[Len(s)])

\* strconv.Atoi: optional sign, then one or more decimal digits; 0 on error
Atoi(s) ==
  LET signed == s # <<>> /\ s[1] \in {"+", "-"}
      body == IF signed THEN Tail(s) ELSE s
      ok == body # <<>> /\ \A i \in 1..Len(body) : IsDigit(body[i])
  IN [ok |-> ok,
      val |-> IF ~ok THEN 0
              ELSE IF signed /\ s[1] = "-" THEN 0 - DigitsValue(body)
              ELSE DigitsValue(body)]

RECURSIVE NatDigits(_)
NatDigits(n) ==
  IF n < 10 THEN <<DigitChars[n + 1]>>
  ELSE NatDigits(n \div 10) \o <<DigitChars[(n % 10) + 1]>>

Itoa(n) == IF n < 0 THEN <<"-">> \o NatDigits(0 - n) ELSE NatDigits(n)

\* fmt verb %03d: sign first, then zero padding up to width 3
Pad3(n) ==
  LET d == NatDigits(IF n < 0 THEN 0 - n ELSE n)
      w == IF n < 0 THEN 2 ELSE 3
      zeros == [i \in 1..(IF Len(d) < w THEN w - Len(d) ELSE 0) |-> "0"]
  IN (IF n < 0 THEN <<"-">> ELSE <<>>) \o zeros \o d

\* ayah id XXXYYY: surah and ayah numbers with leading zeros
FormatAyahID(surahNumber, ayahNumber) == Pad3(surahNumber) \o Pad3(ayahNumber)

(***************************************************************************)
(* fmt.Sscanf(s, "%d", &n): leading blanks, optional sign, digits up to    *)
(* the first non-digit; n keeps its zero value when nothing is scanned     *)
(***************************************************************************)
RECURSIVE DigitPrefix(_)
DigitPrefix(s) ==
  IF s = <<>> \/ ~IsDigit(s[1]) THEN <<>>
  ELSE <<s[1]>> \o DigitPrefix(Tail(s))

RECURSIVE SkipBlanks(_)
SkipBlanks(s) == IF s # <<>> /\ s[1] = " " THEN SkipBlanks(Tail(s)) ELSE s

ScanInt(s) ==
  LET t == SkipBlanks(s)
      signed == t # <<>> /\ t[1] \in {"+", "-"}
      d == DigitPrefix(IF signed THEN Tail(t) ELSE t)
  IN IF d = <<>> THEN 0
     ELSE IF signed /\ t[1] = "-" THEN 0 - DigitsValue(d)
     ELSE DigitsValue(d)

\* parseAyahID with a bug: the ayah number is read from the third character on
parseAyahID_WrongSplit(ayahID) ==
  IF Len(ayahID) # 6 THEN <<0, 0>>
  ELSE <<ScanInt(SubSeq(ayahID, 1, 3)), ScanInt(SubSeq(ayahID, 3, 6))>>

parseAyahID(ayahID) ==
  IF Len(ayahID) # 6 THEN <<0, 0>>
  ELSE <<ScanInt(SubSeq(ayahID, 1, 3)), ScanInt(SubSeq(ayahID, 4, 6))>>

(***************************************************************************)
(* Session store (redis FSM): a key is present or absent                   *)
(***************************************************************************)
Has(st, key) == key \in DOMAIN st

Put(st, key, val) == [k \in DOMAIN st \cup {key} |-> IF k = key THEN val ELSE st[k]]

Del(st, key) == [k \in DOMAIN st \ {key} |-> st[k]]

SetState(st, state) == Put(st, StateKey, state)

\* a missing state key reads as the initial state, without error
GetState(st) == IF Has(st, StateKey) THEN st[StateKey] ELSE StateStart

SetData(st, key, value) == Put(st, key, value)

\* a missing data key is the error "data not found"
GetData(st, key) ==
  IF Has(st, key) THEN [ok |-> TRUE, val |-> st[key]] ELSE [ok |-> FALSE, val |-> <<>>]

DeleteData(st, key) == Del(st, key)

EmptyStore == [k \in {} |-> <<>>]

(***************************************************************************)
(* Updates                                                                 *)
(*   kind: "command" | "voice" | "callback" | "text"                       *)
(*   tag:  the command name, or the callback data up to and including the  *)
(*         first ':' (the whole data when it has none)                     *)
(*   arg:  the rest of the callback data, or the message text              *)
(***************************************************************************)
\* an update with one part (a command, a voice message, a callback query or a
\* text message) sent by a user
Update(kind, tag, arg) ==
  [kind |-> kind, tag |-> tag, arg |-> arg, from |-> TRUE, parts |-> {kind}]

\* any other shape of tgbotapi.Update: whether a sender is named, and which of
\* Message.IsCommand(), Message.Voice, CallbackQuery and Message.Text are set;
\* the command and the callback data are none the bot knows, the text is arg
RawUpdate(from, parts, arg) ==
  [kind |-> "raw", tag |-> "", arg |-> arg, from |-> from, parts |-> parts]

getUserID(ev) == IF ev.from THEN "user" ELSE ""

NoUpdate == Update("none", "", <<>>)

(***************************************************************************)
(* A task: one goroutine running Bot.handleUpdate.  pc names the I/O call  *)
(* it is about to make; the other fields are its locals and what it has    *)
(* done so far (reply rendered, gateway call, store writes issued).        *)
(***************************************************************************)
NewTask(ev) ==
  [ev |-> ev,
   pc |-> IF getUserID(ev) = "" THEN "done" ELSE "handleUpdate.GetUserLanguage",
   ret |-> "", handler |-> "",
   lang |-> <<>>, input |-> <<>>, surahNum |-> 0, ayahNum |-> 0,
   err |-> FALSE, reply |-> "", loc |-> <<>>, created |-> FALSE, gateway |-> "",
   page |-> 0, history |-> 0, listed |-> FALSE, start |-> 0, end |-> 0,
   panic |-> FALSE,
   writes |-> 0, fails |-> 0, ioErr |-> FALSE, langErr |-> FALSE]

IdleTask == [NewTask(NoUpdate) EXCEPT !.pc = "idle"]

Goto(t, pc) == [t EXCEPT !.pc = pc]

\* the handler returns after rendering `reply` ("" renders nothing)
Finish(t, reply) == [t EXCEPT !.pc = "done", !.reply = reply]

Res(t, st) == [t |-> t, st |-> st]

(***************************************************************************)
(* application.BotService                                                  *)
(***************************************************************************)
\* GetUserLanguage with a bug: a missing language is not replaced by the default
GetUserLanguage_NoDefault(st, fail) ==
  LET d == GetData(st, SessionKeyLanguage)
  IN IF fail THEN LangEnglish ELSE d.val

GetUserLanguage(st, fail) ==
  LET d == GetData(st, SessionKeyLanguage)
  IN IF fail \/ ~d.ok \/ d.val = <<>> THEN LangEnglish ELSE d.val

\* what the caller of HandleStart renders
AfterHandleStart(t, err) ==
  LET u == [t EXCEPT !.err = err]
  IN CASE t.ev.kind = "command" /\ t.ev.tag = "start" ->
            Finish(u, IF err THEN "error.generic" ELSE "welcome")
       [] t.ev.kind = "command" /\ t.ev.tag = "newrecord" ->
            Finish(u, IF err THEN "error.generic" ELSE "surah.select")
       [] t.ev.kind = "callback" /\ t.ev.tag = "lang:" ->
            Finish(u, IF err THEN "" ELSE "language.changed")
       [] t.ev.kind = "callback" /\ t.ev.tag = "newrecord" ->
            Finish(u, IF err THEN "" ELSE "surah.select")
       [] OTHER ->
            Finish(u, IF err THEN "" ELSE "autodetect.cancelled")

\* HandleStart with a bug: the language is not stored
HandleStart_DropsLanguage(t, st, fail) ==
  CASE t.pc = "HandleStart.SetState" ->
         IF fail THEN Res(AfterHandleStart(t, TRUE), st)
         ELSE Res(Goto(t, "HandleStart.SetData"), SetState(st, StateSelectSurah))
    [] t.pc = "HandleStart.SetData" ->
         IF fail THEN Res(AfterHandleStart(t, TRUE), st)
         ELSE Res(AfterHandleStart(t, FALSE), st)

HandleStart(t, st, fail) ==
  CASE t.pc = "HandleStart.SetState" ->
         IF fail THEN Res(AfterHandleStart(t, TRUE), st)
         ELSE Res(Goto(t, "HandleStart.SetData"), SetState(st, StateSelectSurah))
    [] t.pc = "HandleStart.SetData" ->
         IF fail THEN Res(AfterHandleStart(t, TRUE), st)
         ELSE Res(AfterHandleStart(t, FALSE), SetData(st, SessionKeyLanguage, t.lang))

\* what the caller of StartAutoDetectMode renders
AfterStartAutoDetectMode(t, err) ==
  LET u == [t EXCEPT !.err = err]
  IN IF t.ev.kind = "command"
     THEN Finish(u, IF err THEN "error.generic" ELSE "autodetect.instructions")
     ELSE Finish(u, IF err THEN "" ELSE "autodetect.instructions")

StartAutoDetectMode(t, st, fail) ==
  IF fail THEN Res(AfterStartAutoDetectMode(t, TRUE), st)
  ELSE Res(AfterStartAutoDetectMode(t, FALSE), SetState(st, StateWaitAutoDetect))

\* EnterHandleSurahSelection with a bug: no upper bound on the surah number
EnterHandleSurahSelection_NoUpperBound(t, surahNumber) ==
  IF surahNumber < 1
  THEN Finish([t EXCEPT !.err = TRUE], "error.generic")
  ELSE Goto([t EXCEPT !.surahNum = surahNumber], "HandleSurahSelection.SetData")

\* HandleSurahSelection up to its first store call: the range check
EnterHandleSurahSelection(t, surahNumber) ==
  IF surahNumber < 1 \/ surahNumber > Len(GetAllSurahs)
  THEN Finish([t EXCEPT !.err = TRUE], "error.generic")
  ELSE Goto([t EXCEPT !.surahNum = surahNumber], "HandleSurahSelection.SetData")

HandleSurahSelection_StateFirst(t, st, fail) ==
  CASE t.pc = "HandleSurahSelection.SetData" ->
         IF fail THEN Res(Finish([t EXCEPT !.err = TRUE], "error.generic"), st)
         ELSE Res(Goto(t, "HandleSurahSelection.SetState"),
                  SetState(st, StateEnterAyah))
    [] t.pc = "HandleSurahSelection.SetState" ->
         IF fail THEN Res(Finish([t EXCEPT !.err = TRUE], "error.generic"), st)
         ELSE Res(Goto(t, "handleCallback.ClearAyahInput"),
                  SetData(st, SessionKeySurah, Itoa(t.surahNum)))

HandleSurahSelection_WritesProcessing(t, st, fail) ==
  CASE t.pc = "HandleSurahSelection.SetData" ->
         IF fail THEN Res(Finish([t EXCEPT !.err = TRUE], "error.generic"), st)
         ELSE Res(Goto(t, "HandleSurahSelection.SetState"),
                  SetData(st, SessionKeySurah, Itoa(t.surahNum)))
    [] t.pc = "HandleSurahSelection.SetState" ->
         IF fail THEN Res(Finish([t EXCEPT !.err = TRUE], "error.generic"), st)
         ELSE Res(Goto(t, "handleCallback.ClearAyahInput"), SetState(st, StateProcessing))

HandleSurahSelection(t, st, fail) ==
  CASE t.pc = "HandleSurahSelection.SetData" ->
         IF fail THEN Res(Finish([t EXCEPT !.err = TRUE], "error.generic"), st)
         ELSE Res(Goto(t, "HandleSurahSelection.SetState"),
                  SetData(st, SessionKeySurah, Itoa(t.surahNum)))
    [] t.pc = "HandleSurahSelection.SetState" ->
         IF fail THEN Res(Finish([t EXCEPT !.err = TRUE], "error.generic"), st)
         ELSE Res(Goto(t, "handleCallback.ClearAyahInput"), SetState(st, StateEnterAyah))

\* HandleAyahInput returns to handleAyahDone or to handleText
AfterHandleAyahInput(t, err) ==
  LET u == [t EXCEPT !.err = err]
  IN IF t.ret = "handleText"
     THEN Finish(u, IF err THEN "error.invalid_ayah" ELSE "recording.prompt")
     ELSE IF err THEN Goto(u, "handleAyahDone.GetSelectedSurah")
     ELSE Goto(u, "handleAyahDone.ClearAyahInput")

\* HandleAyahInput up to its first store call: parse the input
EnterHandleAyahInput(t, input, caller) ==
  LET a == Atoi(input)
      u == [t EXCEPT !.input = input, !.ret = caller, !.ayahNum = a.val]
  IN IF ~a.ok THEN AfterHandleAyahInput(u, TRUE)
     ELSE Goto(u, "HandleAyahInput.GetData")

\* HandleAyahInput with a bug: the state is not moved to wait_recording
HandleAyahInput_NoStateChange(t, st, fail) ==
  CASE t.pc = "HandleAyahInput.GetData" ->
         LET d == GetData(st, SessionKeySurah)
             s == Atoi(d.val)
         IN IF fail \/ ~d.ok THEN Res(AfterHandleAyahInput(t, TRUE), st)
            ELSE IF ~s.ok THEN Res(AfterHandleAyahInput(t, TRUE), st)
            ELSE IF s.val < 1 \/ s.val > Len(GetAllSurahs)
              THEN Res(AfterHandleAyahInput(t, TRUE), st)
            ELSE IF t.ayahNum < 1 \/ t.ayahNum > GetAllSurahs[s.val]
              THEN Res(AfterHandleAyahInput(t, TRUE), st)
            ELSE Res(Goto([t EXCEPT !.surahNum = s.val], "HandleAyahInput.SetData"), st)
    [] t.pc = "HandleAyahInput.SetData" ->
         IF fail THEN Res(AfterHandleAyahInput(t, TRUE), st)
         ELSE Res(Goto(t, "HandleAyahInput.SetState"),
                  SetData(st, SessionKeyAyah, Itoa(t.ayahNum)))
    [] t.pc = "HandleAyahInput.SetState" ->
         IF fail THEN Res(AfterHandleAyahInput(t, TRUE), st)
         ELSE Res(AfterHandleAyahInput(t, FALSE), st)

\* HandleAyahInput with a bug: no upper bound on the ayah number
HandleAyahInput_NoUpperBound(t, st, fail) ==
  CASE t.pc = "HandleAyahInput.GetData" ->
         LET d == GetData(st, SessionKeySurah)
             s == Atoi(d.val)
         IN IF fail \/ ~d.ok THEN Res(AfterHandleAyahInput(t, TRUE), st)
            ELSE IF ~s.ok THEN Res(AfterHandleAyahInput(t, TRUE), st)
            ELSE IF s.val < 1 \/ s.val > Len(GetAllSurahs)
              THEN Res(AfterHandleAyahInput(t, TRUE), st)
            ELSE IF t.ayahNum < 1
              THEN Res(AfterHandleAyahInput(t, TRUE), st)
            ELSE Res(Goto([t EXCEPT !.surahNum = s.val], "HandleAyahInput.SetData"), st)
    [] t.pc = "HandleAyahInput.SetData" ->
         IF fail THEN Res(AfterHandleAyahInput(t, TRUE), st)
         ELSE Res(Goto(t, "HandleAyahInput.SetState"),
                  SetData(st, SessionKeyAyah, Itoa(t.ayahNum)))
    [] t.pc = "HandleAyahInput.SetState" ->
         IF fail THEN Res(AfterHandleAyahInput(t, TRUE), st)
         ELSE Res(AfterHandleAyahInput(t, FALSE), SetState(st, StateWaitRecording))

HandleAyahInput(t, st, fail) ==
  CASE t.pc = "HandleAyahInput.GetData" ->
         LET d == GetData(st, SessionKeySurah)
             s == Atoi(d.val)
         IN IF fail \/ ~d.ok THEN Res(AfterHandleAyahInput(t, TRUE), st)
            ELSE IF ~s.ok THEN Res(AfterHandleAyahInput(t, TRUE), st)
            ELSE IF s.val < 1 \/ s.val > Len(GetAllSurahs)
              THEN Res(AfterHandleAyahInput(t, TRUE), st)
            ELSE IF t.ayahNum < 1 \/ t.ayahNum > GetAllSurahs[s.val]
              THEN Res(AfterHandleAyahInput(t, TRUE), st)
            ELSE Res(Goto([t EXCEPT !.surahNum = s.val], "HandleAyahInput.SetData"), st)
    [] t.pc = "HandleAyahInput.SetData" ->
         IF fail THEN Res(AfterHandleAyahInput(t, TRUE), st)
         ELSE Res(Goto(t, "HandleAyahInput.SetState"),
                  SetData(st, SessionKeyAyah, Itoa(t.ayahNum)))
    [] t.pc = "HandleAyahInput.SetState" ->
         IF fail THEN Res(AfterHandleAyahInput(t, TRUE), st)
         ELSE Res(AfterHandleAyahInput(t, FALSE), SetState(st, StateWaitRecording))

\* HandleRecording with a bug: the state is reset although the submit failed
HandleRecording_ResetsOnFailure(t, st, fail) ==
  CASE t.pc = "HandleRecording.GetSurah" ->
         LET d == GetData(st, SessionKeySurah)
         IN IF fail \/ ~d.ok
            THEN Res(Finish([t EXCEPT !.err = TRUE], "error.recording_failed"), st)
            ELSE Res(Goto([t EXCEPT !.surahNum = Atoi(d.val).val],
                          "HandleRecording.GetAyah"), st)
    [] t.pc = "HandleRecording.GetAyah" ->
         LET d == GetData(st, SessionKeyAyah)
         IN IF fail \/ ~d.ok
            THEN Res(Finish([t EXCEPT !.err = TRUE], "error.recording_failed"), st)
            ELSE Res(Goto([t EXCEPT !.ayahNum = Atoi(d.val).val],
                          "HandleRecording.SubmitRecording"), st)
    [] t.pc = "HandleRecording.SubmitRecording" ->
         LET u == [t EXCEPT !.loc = FormatAyahID(t.surahNum, t.ayahNum)]
         IN IF fail
            THEN Res(Finish([u EXCEPT !.err = TRUE], "error.recording_failed"),
                     SetState(st, StateSelectSurah))
            ELSE Res(Goto([u EXCEPT !.created = TRUE], "HandleRecording.SetState"), st)
    [] t.pc = "HandleRecording.SetState" ->
         IF fail THEN Res(Finish([t EXCEPT !.err = TRUE], "error.recording_failed"), st)
         ELSE Res(Finish(t, "recording.submitted"), SetState(st, StateSelectSurah))

\* HandleRecording with a bug: a missing surah or ayah is read as number 0
HandleRecording_IgnoresMissing(t, st, fail) ==
  CASE t.pc = "HandleRecording.GetSurah" ->
         LET d == GetData(st, SessionKeySurah)
         IN IF fail
            THEN Res(Finish([t EXCEPT !.err = TRUE], "error.recording_failed"), st)
            ELSE Res(Goto([t EXCEPT !.surahNum = Atoi(d.val).val],
                          "HandleRecording.GetAyah"), st)
    [] t.pc = "HandleRecording.GetAyah" ->
         LET d == GetData(st, SessionKeyAyah)
         IN IF fail
            THEN Res(Finish([t EXCEPT !.err = TRUE], "error.recording_failed"), st)
            ELSE Res(Goto([t EXCEPT !.ayahNum = Atoi(d.val).val],
                          "HandleRecording.SubmitRecording"), st)
    [] t.pc = "HandleRecording.SubmitRecording" ->
         LET u == [t EXCEPT !.loc = FormatAyahID(t.surahNum, t.ayahNum)]
         IN IF fail
            THEN Res(Finish([u EXCEPT !.err = TRUE], "error.recording_failed"), st)
            ELSE Res(Goto([u EXCEPT !.created = TRUE], "HandleRecording.SetState"), st)
    [] t.pc = "HandleRecording.SetState" ->
         IF fail THEN Res(Finish([t EXCEPT !.err = TRUE], "error.recording_failed"), st)
         ELSE Res(Finish(t, "recording.submitted"), SetState(st, StateSelectSurah))

HandleRecording(t, st, fail) ==
  CASE t.pc = "HandleRecording.GetSurah" ->
         LET d == GetData(st, SessionKeySurah)
         IN IF fail \/ ~d.ok
            THEN Res(Finish([t EXCEPT !.err = TRUE], "error.recording_failed"), st)
            ELSE Res(Goto([t EXCEPT !.surahNum = Atoi(d.val).val],
                          "HandleRecording.GetAyah"), st)
    [] t.pc = "HandleRecording.GetAyah" ->
         LET d == GetData(st, SessionKeyAyah)
         IN IF fail \/ ~d.ok
            THEN Res(Finish([t EXCEPT !.err = TRUE], "error.recording_failed"), st)
            ELSE Res(Goto([t EXCEPT !.ayahNum = Atoi(d.val).val],
                          "HandleRecording.SubmitRecording"), st)
    [] t.pc = "HandleRecording.SubmitRecording" ->
         LET u == [t EXCEPT !.loc = FormatAyahID(t.surahNum, t.ayahNum)]
         IN IF fail
            THEN Res(Finish([u EXCEPT !.err = TRUE], "error.recording_failed"), st)
            ELSE Res(Goto([u EXCEPT !.created = TRUE], "HandleRecording.SetState"), st)
    [] t.pc = "HandleRecording.SetState" ->
         IF fail THEN Res(Finish([t EXCEPT !.err = TRUE], "error.recording_failed"), st)
         ELSE Res(Finish(t, "recording.submitted"), SetState(st, StateSelectSurah))

HandleAutoDetectRecording(t, st, fail) ==
  CASE t.pc = "HandleAutoDetectRecording.SubmitAutoDetect" ->
         IF fail THEN Res(Finish([t EXCEPT !.err = TRUE], "error.autodetect_failed"), st)
         ELSE Res(Goto([t EXCEPT !.created = TRUE], "HandleAutoDetectRecording.SetState"), st)
    [] t.pc = "HandleAutoDetectRecording.SetState" ->
         IF fail THEN Res(Finish([t EXCEPT !.err = TRUE], "error.autodetect_failed"), st)
         ELSE Res(Finish(t, "autodetect.submitted"), SetState(st, StateStart))

\* GetAyahInput: any error reads as the empty input
GetAyahInput(st, fail) ==
  LET d == GetData(st, SessionKeyAyahInput)
  IN IF fail \/ ~d.ok THEN <<>> ELSE d.val

\* GetSelectedSurah: (number, error)
GetSelectedSurah(st, fail) ==
  LET d == GetData(st, SessionKeySurah)
      s == Atoi(d.val)
  IN IF fail \/ ~d.ok THEN [ok |-> FALSE, val |-> 0] ELSE s

(***************************************************************************)
(* telegram.Bot handlers                                                   *)
(***************************************************************************)
\* the ayah keyboard is re-rendered when the selected surah can be read
RenderAyahKeyboard(t, st, fail) ==
  LET s == GetSelectedSurah(st, fail)
  IN IF ~s.ok THEN Finish(t, "")
     ELSE IF s.val < 1 \/ s.val > Len(GetAllSurahs) THEN Finish(t, "")
     ELSE Finish(t, "ayah.select")

\* handleDigitInput with a bug: the length limit is off by one
handleDigitInput_OffByOne(t, st, fail) ==
  CASE t.pc = "handleDigitInput.GetAyahInput" ->
         LET currentInput == GetAyahInput(st, fail)
         IN IF Len(currentInput) <= 3
            THEN Res(Goto([t EXCEPT !.input = currentInput \o t.ev.arg],
                          "handleDigitInput.SetAyahInput"), st)
            ELSE Res(Goto([t EXCEPT !.input = currentInput],
                          "handleDigitInput.GetSelectedSurah"), st)
    [] t.pc = "handleDigitInput.SetAyahInput" ->
         IF fail THEN Res(Finish(t, ""), st)
         ELSE Res(Goto(t, "handleDigitInput.GetSelectedSurah"),
                  SetData(st, SessionKeyAyahInput, t.input))
    [] t.pc = "handleDigitInput.GetSelectedSurah" ->
         Res(RenderAyahKeyboard(t, st, fail), st)

handleDigitInput_NoGuard(t, st, fail) ==
  CASE t.pc = "handleDigitInput.GetAyahInput" ->
         LET currentInput == GetAyahInput(st, fail)
         IN Res(Goto([t EXCEPT !.input = currentInput \o t.ev.arg],
                     "handleDigitInput.SetAyahInput"), st)
    [] t.pc = "handleDigitInput.SetAyahInput" ->
         IF fail THEN Res(Finish(t, ""), st)
         ELSE Res(Goto(t, "handleDigitInput.GetSelectedSurah"),
                  SetData(st, SessionKeyAyahInput, t.input))
    [] t.pc = "handleDigitInput.GetSelectedSurah" ->
         Res(RenderAyahKeyboard(t, st, fail), st)

handleDigitInput(t, st, fail) ==
  CASE t.pc = "handleDigitInput.GetAyahInput" ->
         LET currentInput == GetAyahInput(st, fail)
         IN IF Len(currentInput) < 3
            THEN Res(Goto([t EXCEPT !.input = currentInput \o t.ev.arg],
                          "handleDigitInput.SetAyahInput"), st)
            ELSE Res(Goto([t EXCEPT !.input = currentInput],
                          "handleDigitInput.GetSelectedSurah"), st)
    [] t.pc = "handleDigitInput.SetAyahInput" ->
         IF fail THEN Res(Finish(t, ""), st)
         ELSE Res(Goto(t, "handleDigitInput.GetSelectedSurah"),
                  SetData(st, SessionKeyAyahInput, t.input))
    [] t.pc = "handleDigitInput.GetSelectedSurah" ->
         Res(RenderAyahKeyboard(t, st, fail), st)

handleClearDigit(t, st, fail) ==
  CASE t.pc = "handleClearDigit.GetAyahInput" ->
         LET currentInput == GetAyahInput(st, fail)
         IN IF Len(currentInput) > 0
            THEN Res(Goto([t EXCEPT !.input = SubSeq(currentInput, 1, Len(currentInput) - 1)],
                          "handleClearDigit.SetAyahInput"), st)
            ELSE Res(Goto([t EXCEPT !.input = currentInput],
                          "handleClearDigit.GetSelectedSurah"), st)
    [] t.pc = "handleClearDigit.SetAyahInput" ->
         IF fail THEN Res(Finish(t, ""), st)
         ELSE Res(Goto(t, "handleClearDigit.GetSelectedSurah"),
                  SetData(st, SessionKeyAyahInput, t.input))
    [] t.pc = "handleClearDigit.GetSelectedSurah" ->
         Res(RenderAyahKeyboard(t, st, fail), st)

handleAyahDone(t, st, fail) ==
  CASE t.pc = "handleAyahDone.GetAyahInput" ->
         LET ayahInput == GetAyahInput(st, fail)
         IN IF ayahInput = <<>>
            THEN Res(Goto([t EXCEPT !.err = TRUE], "handleAyahDone.GetSelectedSurah"), st)
            ELSE Res(EnterHandleAyahInput(t, ayahInput, "handleAyahDone"), st)
    [] t.pc = "handleAyahDone.GetSelectedSurah" ->
         \* the error of GetSelectedSurah is dropped: the number is then 0
         LET s == GetSelectedSurah(st, fail)
         IN IF s.val >= 1 /\ s.val <= Len(GetAllSurahs)
            THEN Res(Finish(t, "error.invalid_ayah"), st)
            ELSE Res(Finish(t, ""), st)
    [] t.pc = "handleAyahDone.ClearAyahInput" ->
         Res(Finish(t, "recording.prompt"),
             IF fail THEN st ELSE DeleteData(st, SessionKeyAyahInput))

handleText(t, st, fail) ==
  IF fail THEN Res(Finish(t, "error.generic"), st)
  ELSE IF GetState(st) = StateEnterAyah
    THEN Res(EnterHandleAyahInput(t, t.ev.arg, "handleText"), st)
  ELSE Res(Finish(t, "help.message"), st)

handleAutoDetectVoice(t, st, fail) ==
  IF fail THEN Res(Finish(t, "error.audio_conversion"), st)
  ELSE Res(Goto(t, "HandleAutoDetectRecording.SubmitAutoDetect"), st)

\* handleVoice with a bug: the auto-detect state is not told apart
handleVoice_NoAutoDetect(t, st, fail) ==
  CASE t.pc = "handleVoice.GetCurrentState" ->
         IF fail THEN Res(Finish(t, "error.unexpected_voice"), st)
         ELSE IF GetState(st) \notin {StateWaitRecording, StateWaitAutoDetect}
           THEN Res(Finish(t, "error.unexpected_voice"), st)
         ELSE Res(Goto(t, "handleVoice.processVoiceMessage"), st)
    [] t.pc = "handleVoice.processVoiceMessage" ->
         IF fail THEN Res(Finish(t, "error.audio_conversion"), st)
         ELSE Res(Goto(t, "HandleRecording.GetSurah"), st)

\* handleVoice with a bug: only the auto-detect state is told apart
handleVoice_NoStateCheck(t, st, fail) ==
  CASE t.pc = "handleVoice.GetCurrentState" ->
         IF fail THEN Res(Finish(t, "error.unexpected_voice"), st)
         ELSE IF GetState(st) = StateWaitAutoDetect
           THEN Res(Goto(t, "handleAutoDetectVoice.processVoiceMessage"), st)
         ELSE Res(Goto(t, "handleVoice.processVoiceMessage"), st)
    [] t.pc = "handleVoice.processVoiceMessage" ->
         IF fail THEN Res(Finish(t, "error.audio_conversion"), st)
         ELSE Res(Goto(t, "HandleRecording.GetSurah"), st)

handleVoice(t, st, fail) ==
  CASE t.pc = "handleVoice.GetCurrentState" ->
         IF fail THEN Res(Finish(t, "error.unexpected_voice"), st)
         ELSE IF GetState(st) = StateWaitAutoDetect
           THEN Res(Goto(t, "handleAutoDetectVoice.processVoiceMessage"), st)
         ELSE IF GetState(st) # StateWaitRecording
           THEN Res(Finish(t, "error.unexpected_voice"), st)
         ELSE Res(Goto(t, "handleVoice.processVoiceMessage"), st)
    [] t.pc = "handleVoice.processVoiceMessage" ->
         IF fail THEN Res(Finish(t, "error.audio_conversion"), st)
         ELSE Res(Goto(t, "HandleRecording.GetSurah"), st)

\* handleCallback with a bug: the digit: prefix is taken with an empty argument
handleCallback_EmptyDigit(t) ==
  LET tag == t.ev.tag
      arg == t.ev.arg
  IN CASE tag = "lang:" /\ arg # <<>> ->
            Goto([t EXCEPT !.lang = arg], "HandleStart.SetState")
       [] tag = "spage:" /\ arg # <<>> -> Finish(t, "surah.select")
       [] tag = "surah:" /\ arg # <<>> ->
            IF ~Atoi(arg).ok THEN Finish(t, "error.invalid_input")
            ELSE EnterHandleSurahSelection(t, Atoi(arg).val)
       [] tag = "digit:" -> Goto(t, "handleDigitInput.GetAyahInput")
       [] tag = "clear" /\ arg = <<>> -> Goto(t, "handleClearDigit.GetAyahInput")
       [] tag = "done" /\ arg = <<>> -> Goto(t, "handleAyahDone.GetAyahInput")
       [] tag = "newrecord" /\ arg = <<>> -> Goto(t, "HandleStart.SetState")
       [] tag = "check:" /\ arg # <<>> -> Goto(t, "handleCheckRecording.GetRecording")
       [] tag = "viewrec:" /\ arg # <<>> -> Goto(t, "handleViewRecording.GetRecording")
       [] tag = "recpage:" /\ arg # <<>> ->
            Goto([t EXCEPT !.page = Atoi(arg).val], "handleCallback.ListRecordings")
       [] tag = "backtorecs" /\ arg = <<>> ->
            Goto([t EXCEPT !.page = 0], "handleCallback.ListRecordings")
       [] tag \in {"new_autodetect", "mode_autodetect"} /\ arg = <<>> ->
            Goto(t, "StartAutoDetectMode.SetState")
       [] tag = "cancel_autodetect" /\ arg = <<>> -> Goto(t, "HandleStart.SetState")
       [] tag = "mode_manual" /\ arg = <<>> -> Finish(t, "surah.select")
       [] OTHER -> Finish(t, "")

\* handleCallback from the parsed data up to the first I/O call of its branch
handleCallback(t) ==
  LET tag == t.ev.tag
      arg == t.ev.arg
  IN CASE tag = "lang:" /\ arg # <<>> ->
            Goto([t EXCEPT !.lang = arg], "HandleStart.SetState")
       [] tag = "spage:" /\ arg # <<>> -> Finish(t, "surah.select")
       [] tag = "surah:" /\ arg # <<>> ->
            IF ~Atoi(arg).ok THEN Finish(t, "error.invalid_input")
            ELSE EnterHandleSurahSelection(t, Atoi(arg).val)
       [] tag = "digit:" /\ arg # <<>> -> Goto(t, "handleDigitInput.GetAyahInput")
       [] tag = "clear" /\ arg = <<>> -> Goto(t, "handleClearDigit.GetAyahInput")
       [] tag = "done" /\ arg = <<>> -> Goto(t, "handleAyahDone.GetAyahInput")
       [] tag = "newrecord" /\ arg = <<>> -> Goto(t, "HandleStart.SetState")
       [] tag = "check:" /\ arg # <<>> -> Goto(t, "handleCheckRecording.GetRecording")
       [] tag = "viewrec:" /\ arg # <<>> -> Goto(t, "handleViewRecording.GetRecording")
       [] tag = "recpage:" /\ arg # <<>> ->
            Goto([t EXCEPT !.page = Atoi(arg).val], "handleCallback.ListRecordings")
       [] tag = "backtorecs" /\ arg = <<>> ->
            Goto([t EXCEPT !.page = 0], "handleCallback.ListRecordings")
       [] tag \in {"new_autodetect", "mode_autodetect"} /\ arg = <<>> ->
            Goto(t, "StartAutoDetectMode.SetState")
       [] tag = "cancel_autodetect" /\ arg = <<>> -> Goto(t, "HandleStart.SetState")
       [] tag = "mode_manual" /\ arg = <<>> -> Finish(t, "surah.select")
       [] OTHER -> Finish(t, "")

\* the window of the recordings list that one page shows: len is the number
\* of recordings; the loop reads recordings[i] for start <= i < end, and an
\* index outside 0..len-1 is a run-time panic
formatRecordingsList(len, page) ==
  LET totalPages == (len + itemsPerPage - 1) \div itemsPerPage
      page1 == IF page < 0 THEN 0 ELSE page
      page2 == IF page1 >= totalPages THEN totalPages - 1 ELSE page1
      start == page2 * itemsPerPage
      end1 == start + itemsPerPage
      end == IF end1 > len THEN len ELSE end1
  IN [start |-> start, end |-> end,
      panic |-> \E i \in start..(end - 1) : i < 0 \/ i >= len]

\* the list is formatted and the message edited; a panic ends the goroutine
\* (and the process) before anything is sent
editRecordingsList(t) ==
  LET w == formatRecordingsList(t.history, t.page)
  IN [t EXCEPT !.pc = "done", !.listed = TRUE, !.start = w.start, !.end = w.end,
               !.panic = w.panic,
               !.reply = IF w.panic THEN "" ELSE "recordings.title"]

\* recpage: and backtorecs: the history is fetched; t.history is the number of
\* recordings the gateway returns
handleCallbackList(t, st, fail) ==
  Res(IF fail THEN Finish(t, "") ELSE editRecordingsList(t), st)

\* Client.GetRecording: an error of the request, or no recording in the
\* answer (t.history is the number of recordings the gateway returns)
GetRecordingFails(t, fail) == fail \/ t.history = 0

\* handleCheckRecording with a bug: the details are rendered whatever is found
handleCheckRecording_IgnoresNotFound(t, st, fail) ==
  Res(Finish(t, "recording.details"), st)

handleCheckRecording(t, st, fail) ==
  IF GetRecordingFails(t, fail)
  THEN Res(Finish([t EXCEPT !.err = TRUE], "error.recording_not_found"), st)
  ELSE Res(Finish(t, "recording.details"), st)

handleViewRecording(t, st, fail) ==
  IF GetRecordingFails(t, fail)
  THEN Res(Finish([t EXCEPT !.err = TRUE], "error.recording_not_found"), st)
  ELSE Res(Finish(t, "recording.details"), st)

\* after a successful surah selection the previous ayah input is deleted
handleCallbackClear_KeepsInput(t, st, fail) ==
  Res(Finish(t, "ayah.select"), st)

handleCallbackClear(t, st, fail) ==
  Res(Finish(t, "ayah.select"), IF fail THEN st ELSE DeleteData(st, SessionKeyAyahInput))

\* the registered command handlers, each from its own language lookup on
handleCommand(t) ==
  IF t.ev.tag \in {"start", "help", "language", "newrecord", "autodetect"}
  THEN Goto(t, "command.GetUserLanguage")
  ELSE Finish(t, "error.unknown_command")

command(t, st, fail) ==
  LET u == [t EXCEPT !.lang = GetUserLanguage(st, fail)]
  IN CASE t.ev.tag \in {"start", "newrecord"} -> Res(Goto(u, "HandleStart.SetState"), st)
       [] t.ev.tag = "autodetect" -> Res(Goto(u, "StartAutoDetectMode.SetState"), st)
       [] t.ev.tag = "help" -> Res(Finish(u, "help.message"), st)
       [] OTHER -> Res(Finish(u, "language.select"), st)

\* handleUpdate with a bug: callback queries are looked at before voice messages
handleUpdate_CallbackFirst(t, st, fail) ==
  LET u == [t EXCEPT !.lang = GetUserLanguage(st, fail)]
      parts == t.ev.parts
  IN IF "command" \in parts
       THEN Res(handleCommand([u EXCEPT !.handler = "handleCommand"]), st)
     ELSE IF "callback" \in parts
       THEN Res(handleCallback([u EXCEPT !.handler = "handleCallback"]), st)
     ELSE IF "voice" \in parts
       THEN Res(Goto([u EXCEPT !.handler = "handleVoice"], "handleVoice.GetCurrentState"), st)
     ELSE IF "text" \in parts
       THEN Res(Goto([u EXCEPT !.handler = "handleText"], "handleText.GetCurrentState"), st)
     ELSE Res(Finish(u, ""), st)

handleUpdate(t, st, fail) ==
  LET u == [t EXCEPT !.lang = GetUserLanguage(st, fail)]
      parts == t.ev.parts
  IN IF "command" \in parts
       THEN Res(handleCommand([u EXCEPT !.handler = "handleCommand"]), st)
     ELSE IF "voice" \in parts
       THEN Res(Goto([u EXCEPT !.handler = "handleVoice"], "handleVoice.GetCurrentState"), st)
     ELSE IF "callback" \in parts
       THEN Res(handleCallback([u EXCEPT !.handler = "handleCallback"]), st)
     ELSE IF "text" \in parts
       THEN Res(Goto([u EXCEPT !.handler = "handleText"], "handleText.GetCurrentState"), st)
     ELSE Res(Finish(u, ""), st)

(***************************************************************************)
(* One step of a task: the I/O call at t.pc (which fails or not) and the   *)
(* code up to the next I/O call                                            *)
(***************************************************************************)
LanguagePcs == {"handleUpdate.GetUserLanguage", "command.GetUserLanguage"}

WritePcs ==
  {"HandleStart.SetState", "HandleStart.SetData", "StartAutoDetectMode.SetState",
   "HandleSurahSelection.SetData", "HandleSurahSelection.SetState",
   "HandleAyahInput.SetData", "HandleAyahInput.SetState",
   "HandleRecording.SetState", "HandleAutoDetectRecording.SetState",
   "handleDigitInput.SetAyahInput", "handleClearDigit.SetAyahInput",
   "handleAyahDone.ClearAyahInput", "handleCallback.ClearAyahInput"}

\* audio download/conversion and the gateway calls: I/O outside the store
OutsidePcs ==
  {"handleVoice.processVoiceMessage", "handleAutoDetectVoice.processVoiceMessage",
   "HandleRecording.SubmitRecording", "HandleAutoDetectRecording.SubmitAutoDetect",
   "handleCallback.ListRecordings", "handleCheckRecording.GetRecording",
   "handleViewRecording.GetRecording"}

\* the calls of the analysis gateway
GatewayPcs ==
  {"HandleRecording.SubmitRecording", "HandleAutoDetectRecording.SubmitAutoDetect",
   "handleCallback.ListRecordings", "handleCheckRecording.GetRecording",
   "handleViewRecording.GetRecording"}

Exec(t, st, fail) ==
  CASE t.pc = "handleUpdate.GetUserLanguage" -> handleUpdate(t, st, fail)
    [] t.pc = "command.GetUserLanguage" -> command(t, st, fail)
    [] t.pc \in {"HandleStart.SetState", "HandleStart.SetData"} -> HandleStart(t, st, fail)
    [] t.pc = "StartAutoDetectMode.SetState" -> StartAutoDetectMode(t, st, fail)
    [] t.pc \in {"HandleSurahSelection.SetData", "HandleSurahSelection.SetState"} ->
         HandleSurahSelection(t, st, fail)
    [] t.pc = "handleCallback.ClearAyahInput" -> handleCallbackClear(t, st, fail)
    [] t.pc = "handleCallback.ListRecordings" -> handleCallbackList(t, st, fail)
    [] t.pc = "handleCheckRecording.GetRecording" -> handleCheckRecording(t, st, fail)
    [] t.pc = "handleViewRecording.GetRecording" -> handleViewRecording(t, st, fail)
    [] t.pc \in {"handleDigitInput.GetAyahInput", "handleDigitInput.SetAyahInput",
                 "handleDigitInput.GetSelectedSurah"} -> handleDigitInput(t, st, fail)
    [] t.pc \in {"handleClearDigit.GetAyahInput", "handleClearDigit.SetAyahInput",
                 "handleClearDigit.GetSelectedSurah"} -> handleClearDigit(t, st, fail)
    [] t.pc \in {"handleAyahDone.GetAyahInput", "handleAyahDone.GetSelectedSurah",
                 "handleAyahDone.ClearAyahInput"} -> handleAyahDone(t, st, fail)
    [] t.pc \in {"HandleAyahInput.GetData", "HandleAyahInput.SetData",
                 "HandleAyahInput.SetState"} -> HandleAyahInput(t, st, fail)
    [] t.pc = "handleText.GetCurrentState" -> handleText(t, st, fail)
    [] t.pc \in {"handleVoice.GetCurrentState", "handleVoice.processVoiceMessage"} ->
         handleVoice(t, st, fail)
    [] t.pc = "handleAutoDetectVoice.processVoiceMessage" -> handleAutoDetectVoice(t, st, fail)
    [] t.pc \in {"HandleRecording.GetSurah", "HandleRecording.GetAyah",
                 "HandleRecording.SubmitRecording", "HandleRecording.SetState"} ->
         HandleRecording(t, st, fail)
    [] t.pc \in {"HandleAutoDetectRecording.SubmitAutoDetect",
                 "HandleAutoDetectRecording.SetState"} ->
         HandleAutoDetectRecording(t, st, fail)

\* Exec, with the bookkeeping of what the task has done
Step(t, st, fail) ==
  LET r == Exec(t, st, fail)
  IN Res([r.t EXCEPT
            !.fails = @ + (IF fail THEN 1 ELSE 0),
            !.writes = @ + (IF t.pc \in WritePcs THEN 1 ELSE 0),
            !.gateway = IF t.pc \in GatewayPcs THEN t.pc ELSE @,
            !.ioErr = @ \/ (fail /\ t.pc \notin LanguagePcs /\ t.pc \notin OutsidePcs),
            !.langErr = @ \/ (fail /\ t.pc \in LanguagePcs)],
         r.st)

\* every way the handler can run to completion with at most k failing calls
RECURSIVE Outcomes(_, _, _)
Outcomes(t, st, k) ==
  IF t.pc = "done" THEN {Res(t, st)}
  ELSE LET ok == Step(t, st, FALSE)
           bad == Step(t, st, TRUE)
       IN Outcomes(ok.t, ok.st, k)
          \cup (IF k > 0 THEN Outcomes(bad.t, bad.st, k - 1) ELSE {})

\* the handler run to completion without a failing call
Run(ev, st) == CHOOSE r \in Outcomes(NewTask(ev), st, 0) : TRUE

\* the same, when the gateway holds n recordings of the user
RunWith(ev, n, st) ==
  CHOOSE r \in Outcomes([NewTask(ev) EXCEPT !.history = n], st, 0) : TRUE

(***************************************************************************)
(* The updates the model feeds to the bot                                  *)
(***************************************************************************)
Commands == {Update("command", c, <<>>) : c \in {"start", "autodetect"}}

\* the tags a lang: callback can carry: one the bot offers and one it does not
\* (the data of a callback query is chosen by the client)
LangArgs == {LangArabic, <<"d", "e">>}

SurahArgs == {Itoa(n) : n \in 1..(NumSurahs + 1)} \cup {<<"x">>}

DigitArgs == {<<"1">>, <<"-">>, <<"1", "1">>}

TextArgs == {<<"1">>, <<"x">>}

PageArgs == {<<"0">>, <<"1">>, <<"9">>, <<"-", "1">>, <<"x">>}

\* the callbacks of the recordings list
ListCallbacks ==
  {Update("callback", "recpage:", a) : a \in PageArgs}
  \cup {Update("callback", "backtorecs", <<>>)}

\* the callbacks that ask for one recording by its id
DetailCallbacks ==
  {Update("callback", c, <<"7">>) : c \in {"check:", "viewrec:"}}

\* the number of recordings the gateway may return when the update asks for
\* the history or for one recording (no other update reads it)
Histories(ev) ==
  IF ev \in ListCallbacks THEN 0..MaxRecordings
  ELSE IF ev \in DetailCallbacks THEN {0, 1}
  ELSE {0}

\* callback data the bot has no branch for: the page indicator button of the
\* recordings list, and prefixes with nothing after them
UnknownCallbacks ==
  {Update("callback", "noop", <<>>),
   Update("callback", "digit:", <<>>),
   Update("callback", "surah:", <<>>)}

Callbacks ==
  {Update("callback", "lang:", a) : a \in LangArgs}
  \cup {Update("callback", "surah:", a) : a \in SurahArgs}
  \cup {Update("callback", "digit:", a) : a \in DigitArgs}
  \cup {Update("callback", c, <<>>) :
          c \in {"clear", "done", "mode_autodetect", "new_autodetect"}}
  \cup UnknownCallbacks
  \cup ListCallbacks
  \cup DetailCallbacks

Texts == {Update("text", "", a) : a \in TextArgs}

\* updates of other shapes: no sender; none of the four parts; several parts
RawUpdates ==
  {RawUpdate(FALSE, {"text"}, <<"1">>),
   RawUpdate(FALSE, {"callback"}, <<>>),
   RawUpdate(TRUE, {}, <<>>),
   RawUpdate(TRUE, {"command", "voice"}, <<>>),
   RawUpdate(TRUE, {"voice", "callback"}, <<>>),
   RawUpdate(TRUE, {"voice", "text"}, <<"1">>),
   RawUpdate(TRUE, {"callback", "text"}, <<"1">>)}

Updates ==
  Commands \cup Callbacks \cup Texts \cup {Update("voice", "", <<>>)} \cup RawUpdates

(***************************************************************************)
(* Spec: updates handled one at a time; keys expire between updates.       *)
(* `last` is what the goroutine that has just run leaves to observe, until *)
(* it returns.                                                             *)
(***************************************************************************)
\* what a finished task leaves to observe: the update, the reply rendered,
\* the gateway call, and counts of store writes issued and of failed calls
Outcome(t) ==
  [ev |-> t.ev, handler |-> t.handler, lang |-> t.lang,
   reply |-> t.reply, err |-> t.err, loc |-> t.loc,
   created |-> t.created, gateway |-> t.gateway,
   listed |-> t.listed, history |-> t.history, start |-> t.start, end |-> t.end,
   panic |-> t.panic,
   writes |-> t.writes, fails |-> t.fails, ioErr |-> t.ioErr, langErr |-> t.langErr]

NoOutcome == Outcome(IdleTask)

\* the receive loop of Bot.Start before any update: its context is live, the
\* updates channel is open and holds nothing, no call has been cancelled;
\* zeroes is the parity of the zero updates received from the closed channel
LoopIdle ==
  [state |-> "running", updates |-> <<NoUpdate, NoUpdate>>, interrupted |-> {},
   closed |-> FALSE, zeroes |-> 0]

\* no pure function has been applied
NoCall == [fn |-> "", arg |-> <<>>, res |-> <<>>]

\* the expiry clocks of the keys are not followed
NoTTL == <<>>

Init ==
  /\ store = EmptyStore
  /\ last = NoOutcome
  /\ tasks = <<IdleTask, IdleTask>>
  /\ base = EmptyStore
  /\ peerStore = EmptyStore
  /\ loop = LoopIdle
  /\ call = NoCall
  /\ ttl = NoTTL

Handle(ev) ==
  /\ last = NoOutcome
  /\ \E n \in Histories(ev) :
       \E r \in Outcomes([NewTask(ev) EXCEPT !.history = n], store, MaxFails) :
         /\ store' = r.st
         /\ last' = Outcome(r.t)
  /\ UNCHANGED <<tasks, base, peerStore, loop, call, ttl>>

\* the goroutine of the handled update returns
Return ==
  /\ last # NoOutcome
  /\ last' = NoOutcome
  /\ UNCHANGED <<store, tasks, base, peerStore, loop, call, ttl>>

\* the TTL of one key runs out
Expire(key) ==
  /\ last = NoOutcome
  /\ Has(store, key)
  /\ store' = Del(store, key)
  /\ UNCHANGED <<last, tasks, base, peerStore, loop, call, ttl>>

Next ==
  \/ \E ev \in Updates : Handle(ev)
  \/ Return
  \/ \E key \in DataKeys \cup {StateKey} : Expire(key)

Spec == Init /\ [][Next]_vars

(***************************************************************************)
(* SpecConc: Bot.Start starts one goroutine per update, so two updates of  *)
(* one user run interleaved; each store call is one atomic step.  base is  *)
(* the session as it was when the two updates arrived.                     *)
(***************************************************************************)
ConcUpdates ==
  {Update("command", "start", <<>>),
   Update("callback", "surah:", <<"1">>),
   Update("callback", "surah:", <<"2">>),
   Update("callback", "digit:", <<"1">>),
   Update("callback", "done", <<>>)}

Tasks == {1, 2}

InitConc == Init

\* two updates arrive and `go b.handleUpdate` is run for each
Dispatch(e1, e2) ==
  /\ \A i \in Tasks : tasks[i].pc = "idle"
  /\ tasks' = <<NewTask(e1), NewTask(e2)>>
  /\ base' = store
  /\ UNCHANGED <<store, last, peerStore, loop, call, ttl>>

\* goroutine i makes its next call, which fails or not
StepTask(i, fail) ==
  /\ tasks[i].pc \notin {"idle", "done"}
  /\ fail => tasks[i].fails < MaxFails
  /\ LET r == Step(tasks[i], store, fail)
     IN /\ tasks' = [tasks EXCEPT ![i] = r.t]
        /\ store' = r.st
  /\ UNCHANGED <<last, base, peerStore, loop, call, ttl>>

\* both goroutines have returned
Join ==
  /\ \A i \in Tasks : tasks[i].pc = "done"
  /\ tasks' = <<IdleTask, IdleTask>>
  /\ base' = EmptyStore
  /\ UNCHANGED <<store, last, peerStore, loop, call, ttl>>

NextConc ==
  \/ \E e1, e2 \in ConcUpdates : Dispatch(e1, e2)
  \/ \E i \in Tasks, fail \in BOOLEAN : StepTask(i, fail)
  \/ Join

SpecConc == InitConc /\ [][NextConc]_vars

(***************************************************************************)
(* SpecLoop: the receive loop of Bot.Start serving two users.  User 1's    *)
(* session is `store`, user 2's is `peerStore`; tasks[i] is the goroutine  *)
(* of user i's update.  run() cancels the context on a signal, stops the   *)
(* bot and returns, which ends the process.                                *)
(***************************************************************************)
Users == {1, 2}

\* user 1 sends recordings, user 2 starts and selects a surah
LoopUpdates(i) ==
  IF i = 1
  THEN {Update("voice", "", <<>>)}
  ELSE {Update("command", "start", <<>>),
        Update("callback", "surah:", <<"1">>)}

\* the session of a user who has gone from /start to the confirmation of
\* ayah 1 of surah 1 and is now asked for a recording
AwaitingSession ==
  LET s1 == Run(Update("command", "start", <<>>), EmptyStore).st
      s2 == Run(Update("callback", "surah:", <<"1">>), s1).st
      s3 == Run(Update("callback", "digit:", <<"1">>), s2).st
  IN Run(Update("callback", "done", <<>>), s3).st

StoreOf(i) == IF i = 1 THEN store ELSE peerStore

\* the calls that are given the context of Bot.Start: every store and gateway
\* call; the audio download and conversion take no context
TakesContext(pc) ==
  pc \notin {"idle", "done", "killed",
             "handleVoice.processVoiceMessage", "handleAutoDetectVoice.processVoiceMessage"}

\* user 1 awaits a recording, user 2 is new
InitLoop ==
  /\ store = AwaitingSession
  /\ last = NoOutcome
  /\ tasks = <<IdleTask, IdleTask>>
  /\ base = EmptyStore
  /\ peerStore = EmptyStore
  /\ loop = LoopIdle
  /\ call = NoCall
  /\ ttl = NoTTL

\* an update of user i is put on the updates channel (the user sends the next
\* one after the previous one was handled)
Arrive(i, ev) ==
  /\ loop.state = "running"
  /\ loop.updates[i] = NoUpdate
  /\ tasks[i].pc = "idle"
  /\ loop' = [loop EXCEPT !.updates[i] = ev]
  /\ UNCHANGED <<store, last, tasks, base, peerStore, call, ttl>>

\* Receive with a bug: the handler is called in the loop, not in a goroutine
Receive_Synchronous(i) ==
  /\ loop.state \in {"running", "cancelled"}
  /\ loop.updates[i] # NoUpdate
  /\ \A j \in Users : tasks[j].pc \in {"idle", "done"}
  /\ tasks' = [tasks EXCEPT ![i] = NewTask(loop.updates[i])]
  /\ loop' = [loop EXCEPT !.updates[i] = NoUpdate]
  /\ UNCHANGED <<store, last, base, peerStore, call, ttl>>

\* the select of Bot.Start takes the update case and starts a goroutine for
\* it; once the context is cancelled both cases of the select are ready and
\* either may be taken
Receive(i) ==
  /\ loop.state \in {"running", "cancelled"}
  /\ loop.updates[i] # NoUpdate
  /\ tasks' = [tasks EXCEPT ![i] = NewTask(loop.updates[i])]
  /\ loop' = [loop EXCEPT !.updates[i] = NoUpdate]
  /\ UNCHANGED <<store, last, base, peerStore, call, ttl>>

\* the goroutine of user i makes its next call.  how = "ok": the call
\* succeeds; "fail": it fails by itself (for a gateway call, the client
\* timeout included); "cancelled": it returns the error of the cancelled
\* context
StepUser(i, how) ==
  /\ loop.state # "exited"
  /\ tasks[i].pc \notin {"idle", "done", "killed"}
  /\ how = "fail" => tasks[i].fails < MaxFails
  /\ how = "cancelled" => (loop.state # "running" /\ TakesContext(tasks[i].pc))
  /\ LET r == Step(tasks[i], StoreOf(i), how # "ok")
     IN /\ tasks' = [tasks EXCEPT ![i] = r.t]
        /\ store' = IF i = 1 THEN r.st ELSE store
        /\ peerStore' = IF i = 2 THEN r.st ELSE peerStore
  /\ loop' = [loop EXCEPT !.interrupted = IF how = "cancelled" THEN @ \cup {i} ELSE @]
  /\ UNCHANGED <<last, base, call, ttl>>

\* the goroutine of user i returns
ReturnUser(i) ==
  /\ loop.state # "exited"
  /\ tasks[i].pc = "done"
  /\ tasks' = [tasks EXCEPT ![i] = IdleTask]
  /\ UNCHANGED <<store, last, base, peerStore, loop, call, ttl>>

\* run() receives the signal and calls cancel() (Bot.Stop cancels again)
Cancel ==
  /\ loop.state = "running"
  /\ loop' = [loop EXCEPT !.state = "cancelled"]
  /\ UNCHANGED <<store, last, tasks, base, peerStore, call, ttl>>

\* LoopReturn with a bug: the update case of the select has priority over the
\* ctx.Done case
LoopReturn_UpdatesFirst ==
  /\ loop.state = "cancelled"
  /\ ~loop.closed
  /\ \A i \in Users : loop.updates[i] = NoUpdate
  /\ loop' = [loop EXCEPT !.state = "returned"]
  /\ UNCHANGED <<store, last, tasks, base, peerStore, call, ttl>>

\* the select of Bot.Start takes the ctx.Done case
LoopReturn ==
  /\ loop.state = "cancelled"
  /\ loop' = [loop EXCEPT !.state = "returned"]
  /\ UNCHANGED <<store, last, tasks, base, peerStore, call, ttl>>

\* run() returns after Bot.Stop, main returns and the process ends with the
\* goroutines that are still running
Exit ==
  /\ loop.state \in {"cancelled", "returned"}
  /\ LET running == {i \in Users : tasks[i].pc \notin {"idle", "done"}}
     IN /\ tasks' = [i \in Users |->
                       IF i \in running THEN [tasks[i] EXCEPT !.pc = "killed"] ELSE tasks[i]]
        /\ loop' = [loop EXCEPT !.state = "exited", !.interrupted = @ \cup running]
  /\ UNCHANGED <<store, last, base, peerStore, call, ttl>>

NextLoop ==
  \/ \E i \in Users : \E ev \in LoopUpdates(i) : Arrive(i, ev)
  \/ \E i \in Users : Receive(i)
  \/ \E i \in Users, how \in {"ok", "fail", "cancelled"} : StepUser(i, how)
  \/ \E i \in Users : ReturnUser(i)
  \/ Cancel
  \/ LoopReturn
  \/ Exit

\* The loop goroutine is scheduled when an update is on the channel, and the
\* goroutine of user 2 is scheduled and each of its calls returns.  Nothing is
\* assumed about when the calls of user 1 return.
SpecLoop ==
  /\ InitLoop
  /\ [][NextLoop]_vars
  /\ WF_vars(Receive(2))
  /\ WF_vars(\E how \in {"ok", "fail"} : StepUser(2, how))

\* the sessions that handling e1 to completion and then e2 can leave
SerialResults(e1, e2, st) ==
  UNION {{r2.st : r2 \in Outcomes(NewTask(e2), r1.st, MaxFails)} :
           r1 \in Outcomes(NewTask(e1), st, MaxFails)}

(***************************************************************************)
(* SpecNormalize: the gateway's JSON answer for one recording, decoded     *)
(* into recordingResponse, is mapped by mapRecording and then rendered by  *)
(* formatRecordingDetails.  A pointer or slice of the Go structs is Nil or *)
(* Some(value): a JSON array decodes to Some(sequence), possibly empty; a  *)
(* missing or null field to Nil.  Numbers are integers (rates in percent). *)
(***************************************************************************)
Nil == <<>>

Some(x) == <<x>>

\* len() of a Go slice: 0 for nil
SliceLen(o) == IF o = Nil THEN 0 ELSE Len(o[1])

\* the elements of a Go slice, nil read as no element
Elems(o) == IF o = Nil THEN <<>> ELSE o[1]

mapOperation(op) ==
  [RefAr |-> op.ref_ar, RefClean |-> op.ref_clean, HypAr |-> op.hyp_ar,
   HypClean |-> op.hyp_clean, Op |-> op.op, TStart |-> op.t_start, TEnd |-> op.t_end]

\* mapOps with a bug: the operations are stored back to front
mapOps_Reversed(ops) ==
  IF SliceLen(ops) > 0
  THEN Some([i \in 1..Len(ops[1]) |-> mapOperation(ops[1][Len(ops[1]) + 1 - i])])
  ELSE Nil

\* the legacy ops field
mapOps(ops) ==
  IF SliceLen(ops) > 0
  THEN Some([i \in 1..Len(ops[1]) |-> mapOperation(ops[1][i])])
  ELSE Nil

mapAyahError(e) ==
  [Type |-> e.type, RefWord |-> e.ref_word, HypWord |-> e.hyp_word, Position |-> e.position]

mapErrors(errors) ==
  IF SliceLen(errors) > 0
  THEN Some([j \in 1..Len(errors[1]) |-> mapAyahError(errors[1][j])])
  ELSE Nil

mapPerAyahResult(a) ==
  [AyahID |-> a.ayah_id, Surah |-> a.surah, Ayah |-> a.ayah, Words |-> a.words,
   Correct |-> a.correct, Substitutions |-> a.substitutions, Deletions |-> a.deletions,
   Insertions |-> a.insertions, WER |-> a.wer, ReferenceText |-> a.reference_text,
   Errors |-> mapErrors(a.errors)]

mapPerAyahResults(results) ==
  IF SliceLen(results) > 0
  THEN Some([i \in 1..Len(results[1]) |-> mapPerAyahResult(results[1][i])])
  ELSE Nil

mapDetectedRange(d) ==
  IF d # Nil
  THEN Some([StartAyah |-> d[1].start_ayah, EndAyah |-> d[1].end_ayah,
             TotalAyahs |-> d[1].total_ayahs])
  ELSE Nil

\* mapStatistics with a bug: statistics are allocated even when there are none
mapStatistics_AlwaysAllocated(s) ==
  IF s # Nil
  THEN Some([TotalWords |-> s[1].total_words, Correct |-> s[1].correct,
             Substitutions |-> s[1].substitutions, Deletions |-> s[1].deletions,
             Insertions |-> s[1].insertions, WER |-> s[1].wer, Accuracy |-> s[1].accuracy])
  ELSE Some([TotalWords |-> 0, Correct |-> 0, Substitutions |-> 0, Deletions |-> 0,
             Insertions |-> 0, WER |-> 0, Accuracy |-> 0])

mapStatistics(s) ==
  IF s # Nil
  THEN Some([TotalWords |-> s[1].total_words, Correct |-> s[1].correct,
             Substitutions |-> s[1].substitutions, Deletions |-> s[1].deletions,
             Insertions |-> s[1].insertions, WER |-> s[1].wer, Accuracy |-> s[1].accuracy])
  ELSE Nil

mapResult(res) ==
  IF res # Nil
  THEN Some([Status |-> res[1].status,
             DetectionMethod |-> res[1].detection_method,
             StartingAyah |-> res[1].starting_ayah,
             DetectionConfidence |-> res[1].detection_confidence,
             Hypothesis |-> res[1].hypothesis,
             ProcessingTime |-> res[1].processing_time,
             Error |-> res[1].error,
             Suggestion |-> res[1].suggestion,
             Transcript |-> res[1].transcript,
             TranscriptLength |-> res[1].transcript_length,
             WER |-> res[1].wer,
             DetectedRange |-> mapDetectedRange(res[1].detected_range),
             OverallStatistics |-> mapStatistics(res[1].overall_statistics),
             PerAyahResults |-> mapPerAyahResults(res[1].per_ayah_results),
             Ops |-> mapOps(res[1].ops)])
  ELSE Nil

mapRecording(r) ==
  [ID |-> r.recording_id, LearnerID |-> r.learner_id, AyahID |-> r.ayah_id,
   Status |-> r.status, Result |-> mapResult(r.result)]

StatusQueued == "queued"
StatusProcessing == "processing"
StatusDone == "done"
StatusFailed == "failed"

\* the header of the details: detected range or the ayah asked for
formatHeader(rec) ==
  LET isAutoDetect == rec.Result # Nil /\ rec.Result[1].DetectionMethod # ""
  IN IF isAutoDetect /\ rec.Result[1].Status = "matched"
     THEN {"mode.autodetect"}
          \cup (IF rec.Result[1].DetectedRange # Nil THEN {"detected"} ELSE {})
     ELSE IF rec.AyahID # "" THEN {"surah", "ayah"}
     ELSE {}

\* the parts of the message formatRecordingDetails builds for a recording
formatRecordingDetails(rec) ==
  formatHeader(rec) \cup {"recording.created", "recording.status"}
  \cup
  (IF rec.Result # Nil
   THEN LET res == rec.Result[1]
        IN IF res.Status = "no_match"
           THEN {"no_match", "error"}
                \cup (IF res.Suggestion # "" THEN {"suggestion"} ELSE {})
           ELSE IF res.Status = "matched"
           THEN {"recording.results"}
                \cup (IF res.OverallStatistics # Nil THEN {"accuracy", "wer"} ELSE {})
                \cup (IF SliceLen(res.PerAyahResults) > 0 THEN {"per_ayah"} ELSE {})
                \cup (IF res.Hypothesis # "" THEN {"recording.transcription"} ELSE {})
           ELSE {"recording.results", "wer"}
                \cup (IF SliceLen(res.Ops) > 0 THEN {"recording.analysis"} ELSE {})
                \cup (IF res.Hypothesis # "" THEN {"recording.transcription"} ELSE {})
   ELSE IF rec.Status \in {StatusQueued, StatusProcessing}
   THEN {"recording.processing"}
   ELSE {})

\* all sequences over S of length at most n
SeqsUpTo(S, n) == UNION {[1..k -> S] : k \in 0..n}

\* a slice field of the decoded JSON: missing, or an array of at most n items
RawSlices(S, n) == {Nil} \cup {Some(q) : q \in SeqsUpTo(S, n)}

RawOps ==
  {[ref_ar |-> "w1", ref_clean |-> "c1", hyp_ar |-> "w1", hyp_clean |-> "c1",
    op |-> "C", t_start |-> 0, t_end |-> 1],
   [ref_ar |-> "w2", ref_clean |-> "c2", hyp_ar |-> "x2", hyp_clean |-> "y2",
    op |-> "S", t_start |-> 1, t_end |-> 2]}

RawAyahErrors ==
  {[type |-> "S", ref_word |-> "w2", hyp_word |-> "x2", position |-> 1]}

RawPerAyahResults ==
  {[ayah_id |-> "001001", surah |-> "1", ayah |-> "1", words |-> 4, correct |-> 4,
    substitutions |-> 0, deletions |-> 0, insertions |-> 0, wer |-> 0,
    reference_text |-> "t1", errors |-> e] : e \in {Nil, Some(<<>>)}}
  \cup
  {[ayah_id |-> "001002", surah |-> "1", ayah |-> "2", words |-> 4, correct |-> 3,
    substitutions |-> 1, deletions |-> 0, insertions |-> 0, wer |-> 25,
    reference_text |-> "t2", errors |-> Some(q)] : q \in SeqsUpTo(RawAyahErrors, 1) \ {<<>>}}

RawStatistics ==
  [total_words |-> 8, correct |-> 7, substitutions |-> 1, deletions |-> 0,
   insertions |-> 0, wer |-> 12, accuracy |-> 88]

RawDetectedRange == [start_ayah |-> "001001", end_ayah |-> "001002", total_ayahs |-> 2]

\* the resultResponse values the model decodes
RawResults ==
  {[status |-> st, detection_method |-> dm,
    starting_ayah |-> IF dm = "" THEN "" ELSE "001001",
    detection_confidence |-> IF dm = "" THEN "" ELSE "high",
    hypothesis |-> hyp,
    detected_range |-> dr, overall_statistics |-> os, per_ayah_results |-> pa,
    processing_time |-> IF dm = "" THEN 0 ELSE 3,
    error |-> IF st = "no_match" THEN "no match" ELSE "",
    suggestion |-> "",
    transcript |-> hyp, transcript_length |-> IF hyp = "" THEN 0 ELSE 1,
    wer |-> wer, ops |-> ops] :
     st \in {"", "matched", "no_match"}, dm \in {"", "auto"}, hyp \in {"", "h"},
     dr \in {Nil, Some(RawDetectedRange)}, os \in {Nil, Some(RawStatistics)},
     pa \in RawSlices(RawPerAyahResults, MaxItems),
     wer \in {0, 25}, ops \in RawSlices(RawOps, MaxItems)}

\* the recordingResponse values the model decodes
RawRecordings ==
  {[recording_id |-> "r1", learner_id |-> "user", ayah_id |-> a, status |-> s, result |-> r] :
     a \in {"", "001001"}, s \in {StatusQueued, StatusDone},
     r \in {Nil} \cup {Some(x) : x \in RawResults}}

InitNormalize ==
  /\ store = EmptyStore
  /\ last = NoOutcome
  /\ tasks = <<IdleTask, IdleTask>>
  /\ base = EmptyStore
  /\ peerStore = EmptyStore
  /\ loop = LoopIdle
  /\ ttl = NoTTL
  /\ call \in {[fn |-> "decode", arg |-> <<>>, res |-> r] : r \in RawRecordings}

\* Client.GetRecording maps the decoded answer
Normalize ==
  /\ call.fn = "decode"
  /\ call' = [fn |-> "mapRecording", arg |-> call.res, res |-> mapRecording(call.res)]
  /\ UNCHANGED <<store, last, tasks, base, peerStore, loop, ttl>>

\* handleCheckRecording / handleViewRecording render the recording
Render ==
  /\ call.fn = "mapRecording"
  /\ call' = [fn |-> "formatRecordingDetails", arg |-> call.res,
              res |-> formatRecordingDetails(call.res)]
  /\ UNCHANGED <<store, last, tasks, base, peerStore, loop, ttl>>

NextNormalize ==
  \/ Normalize
  \/ Render

SpecNormalize == InitNormalize /\ [][NextNormalize]_vars

(***************************************************************************)
(* SpecLocator: ayah ids are built by domain.FormatAyahID when a recording *)
(* is submitted and read back by Bot.parseAyahID when a recording is       *)
(* shown; parseAyahID is also given whatever ayah_id the gateway returns.  *)
(***************************************************************************)
LocatorChars == {"0", "7", "x", "-"}

\* the ayah_id strings the gateway may return
Locators == UNION {[1..k -> LocatorChars] : k \in 0..MaxLocatorLen}

InitLocator ==
  /\ store = EmptyStore
  /\ last = NoOutcome
  /\ tasks = <<IdleTask, IdleTask>>
  /\ base = EmptyStore
  /\ peerStore = EmptyStore
  /\ loop = LoopIdle
  /\ ttl = NoTTL
  /\ call \in {[fn |-> "numbers", arg |-> <<>>, res |-> <<p, n>>] :
                 p \in 1..MaxSurah, n \in 1..MaxAyah}
              \cup {[fn |-> "ayah_id", arg |-> <<>>, res |-> s] : s \in Locators}

\* HandleRecording formats the id of the selected ayah
Encode ==
  /\ call.fn = "numbers"
  /\ call' = [fn |-> "FormatAyahID", arg |-> call.res,
              res |-> FormatAyahID(call.res[1], call.res[2])]
  /\ UNCHANGED <<store, last, tasks, base, peerStore, loop, ttl>>

\* the recordings list and the details parse the id of a recording
Decode ==
  /\ call.fn \in {"FormatAyahID", "ayah_id"}
  /\ call' = [fn |-> "parseAyahID", arg |-> call.res, res |-> parseAyahID(call.res)]
  /\ UNCHANGED <<store, last, tasks, base, peerStore, loop, ttl>>

NextLocator ==
  \/ Encode
  \/ Decode

SpecLocator == InitLocator /\ [][NextLocator]_vars

(***************************************************************************)
(* SpecTTL: the redis keys of one user with their expiry clocks.  ttl[k]   *)
(* is the number of clock ticks key k has left; a key lives exactly as     *)
(* long as it has ticks left.  The FSM methods are called one at a time,   *)
(* and a call may fail (then redis is not changed).                        *)
(***************************************************************************)
\* redis SET key value EX defaultTTL
RedisSet(clocks, key) ==
  [k \in DOMAIN clocks \cup {key} |-> IF k = key THEN TTLTicks ELSE clocks[k]]

\* the keys that outlive the next tick
Surviving(clocks) == {k \in DOMAIN clocks : clocks[k] > 1}

TTLStates == {StateSelectSurah, StateWaitRecording}

TTLValues == {<<"1">>, <<"2">>}

\* the data keys that are written and read
TTLKeys == {SessionKeySurah, SessionKeyAyahInput}

InitTTL ==
  /\ store = EmptyStore
  /\ last = NoOutcome
  /\ tasks = <<IdleTask, IdleTask>>
  /\ base = EmptyStore
  /\ peerStore = EmptyStore
  /\ loop = LoopIdle
  /\ call = NoCall
  /\ ttl = [k \in {} |-> 0]

FsmSetState(state, fail) ==
  /\ call' = [fn |-> "SetState", arg |-> <<StateKey, state>>, res |-> ~fail]
  /\ store' = IF fail THEN store ELSE SetState(store, state)
  /\ ttl' = IF fail THEN ttl ELSE RedisSet(ttl, StateKey)
  /\ UNCHANGED <<last, tasks, base, peerStore, loop>>

FsmGetState(fail) ==
  /\ call' = [fn |-> "GetState", arg |-> <<StateKey>>,
              res |-> IF fail THEN "error" ELSE GetState(store)]
  /\ UNCHANGED <<store, ttl, last, tasks, base, peerStore, loop>>

\* FsmSetData with a bug: the key keeps the time to live it had (SET KEEPTTL)
FsmSetData_KeepTTL(key, value, fail) ==
  /\ call' = [fn |-> "SetData", arg |-> <<key, value>>, res |-> ~fail]
  /\ store' = IF fail THEN store ELSE SetData(store, key, value)
  /\ ttl' = IF fail \/ Has(store, key) THEN ttl ELSE RedisSet(ttl, key)
  /\ UNCHANGED <<last, tasks, base, peerStore, loop>>

FsmSetData(key, value, fail) ==
  /\ call' = [fn |-> "SetData", arg |-> <<key, value>>, res |-> ~fail]
  /\ store' = IF fail THEN store ELSE SetData(store, key, value)
  /\ ttl' = IF fail THEN ttl ELSE RedisSet(ttl, key)
  /\ UNCHANGED <<last, tasks, base, peerStore, loop>>

FsmGetData(key, fail) ==
  /\ call' = [fn |-> "GetData", arg |-> <<key>>,
              res |-> IF fail THEN [ok |-> FALSE, val |-> <<"error">>]
                      ELSE GetData(store, key)]
  /\ UNCHANGED <<store, ttl, last, tasks, base, peerStore, loop>>

FsmDeleteData(key, fail) ==
  /\ call' = [fn |-> "DeleteData", arg |-> <<key>>, res |-> ~fail]
  /\ store' = IF fail THEN store ELSE DeleteData(store, key)
  /\ ttl' = IF fail THEN ttl ELSE [k \in DOMAIN ttl \ {key} |-> ttl[k]]
  /\ UNCHANGED <<last, tasks, base, peerStore, loop>>

\* the clock ticks: redis drops the keys whose time has run out
Tick ==
  /\ call' = [fn |-> "Tick", arg |-> <<>>, res |-> TRUE]
  /\ ttl' = [k \in Surviving(ttl) |-> ttl[k] - 1]
  /\ store' = [k \in Surviving(ttl) |-> store[k]]
  /\ UNCHANGED <<last, tasks, base, peerStore, loop>>

NextTTL ==
  \/ \E state \in TTLStates, fail \in BOOLEAN : FsmSetState(state, fail)
  \/ \E fail \in BOOLEAN : FsmGetState(fail)
  \/ \E key \in TTLKeys, value \in TTLValues, fail \in BOOLEAN : FsmSetData(key, value, fail)
  \/ \E key \in TTLKeys, fail \in BOOLEAN : FsmGetData(key, fail)
  \/ \E key \in TTLKeys, fail \in BOOLEAN : FsmDeleteData(key, fail)
  \/ Tick

SpecTTL == InitTTL /\ [][NextTTL]_vars

(***************************************************************************)
(* SpecTap: two digit presses of one user on the ayah keyboard, each in    *)
(* its own goroutine (Bot.Start), starting from a session in enter_ayah    *)
(* whose stored input is any buffer the keyboard can have produced.        *)
(***************************************************************************)
TapDigits == {"1", "2"}

TapUpdates == {Update("callback", "digit:", <<d>>) : d \in TapDigits}

\* the buffers handleDigitInput can have stored: at most three digits
TapBuffers == SeqsUpTo(TapDigits, 3)

\* the session after /start, the choice of surah 1 and the presses of b
RECURSIVE EnterAyahSession(_)
EnterAyahSession(b) ==
  IF b = <<>>
  THEN Run(Update("callback", "surah:", <<"1">>),
           Run(Update("command", "start", <<>>), EmptyStore).st).st
  ELSE Run(Update("callback", "digit:", <<b[Len(b)]>>),
           EnterAyahSession(SubSeq(b, 1, Len(b) - 1))).st

InitTap ==
  /\ store \in {EnterAyahSession(b) : b \in TapBuffers}
  /\ last = NoOutcome
  /\ tasks = <<IdleTask, IdleTask>>
  /\ base = EmptyStore
  /\ peerStore = EmptyStore
  /\ loop = LoopIdle
  /\ call = NoCall
  /\ ttl = NoTTL

NextTap ==
  \/ \E e1, e2 \in TapUpdates : Dispatch(e1, e2)
  \/ \E i \in Tasks, fail \in BOOLEAN : StepTask(i, fail)
  \/ Join

SpecTap == InitTap /\ [][NextTap]_vars

(***************************************************************************)
(* SpecVoice: two voice messages of one user who has confirmed ayah 1 of   *)
(* surah 1, each handled in its own goroutine (Bot.Start).                 *)
(***************************************************************************)
VoiceUpdates == {Update("voice", "", <<>>)}

InitVoice ==
  /\ store = AwaitingSession
  /\ last = NoOutcome
  /\ tasks = <<IdleTask, IdleTask>>
  /\ base = EmptyStore
  /\ peerStore = EmptyStore
  /\ loop = LoopIdle
  /\ call = NoCall
  /\ ttl = NoTTL

NextVoice ==
  \/ \E e1, e2 \in VoiceUpdates : Dispatch(e1, e2)
  \/ \E i \in Tasks, fail \in BOOLEAN : StepTask(i, fail)
  \/ Join

SpecVoice == InitVoice /\ [][NextVoice]_vars

(***************************************************************************)
(* SpecEntry: the two ways of entering an ayah number in enter_ayah, with  *)
(* no failing call.  Two users have selected the same surah; the first     *)
(* sends the number as a text message (handleText), the second presses its *)
(* characters one by one on the keyboard and then done (handleDigitInput,  *)
(* handleAyahDone).  call holds the number and what is still to be keyed.  *)
(***************************************************************************)
EntryDigits == {"0", "1", "9"}

EntryInputs == SeqsUpTo(EntryDigits, MaxEntryLen) \ {<<>>}

\* the session after /start and the choice of surah p
SelectedSession(p) ==
  Run(Update("callback", "surah:", Itoa(p)),
      Run(Update("command", "start", <<>>), EmptyStore).st).st

InitEntry ==
  /\ \E p \in 1..NumSurahs :
       /\ store = SelectedSession(p)
       /\ peerStore = SelectedSession(p)
  /\ last = NoOutcome
  /\ tasks = <<IdleTask, IdleTask>>
  /\ base = EmptyStore
  /\ loop = LoopIdle
  /\ ttl = NoTTL
  /\ call \in {[fn |-> "input", arg |-> input, res |-> input] : input \in EntryInputs}

\* the first user sends the number as text
TypeText ==
  /\ last = NoOutcome
  /\ LET r == Run(Update("text", "", call.arg), store)
     IN /\ store' = r.st
        /\ last' = Outcome(r.t)
  /\ UNCHANGED <<tasks, base, peerStore, loop, call, ttl>>

\* the second user presses the next character of the number
PressDigit ==
  /\ call.fn = "input"
  /\ call.res # <<>>
  /\ peerStore' = Run(Update("callback", "digit:", <<Head(call.res)>>), peerStore).st
  /\ call' = [call EXCEPT !.res = Tail(call.res)]
  /\ UNCHANGED <<store, last, tasks, base, loop, ttl>>

\* the second user presses done
PressDone ==
  /\ call.fn = "input"
  /\ call.res = <<>>
  /\ peerStore' = Run(Update("callback", "done", <<>>), peerStore).st
  /\ call' = [call EXCEPT !.fn = "handleAyahDone"]
  /\ UNCHANGED <<store, last, tasks, base, loop, ttl>>

NextEntry ==
  \/ TypeText
  \/ PressDigit
  \/ PressDone

SpecEntry == InitEntry /\ [][NextEntry]_vars

(***************************************************************************)
(* SpecRecover: after any run of Spec (any updates, failing calls and      *)
(* expired keys), the user goes through /start, the choice of surah p, the *)
(* digits of ayah n and done, and none of these calls fails.  call holds   *)
(* the chosen (p, n) and the updates still to come, base the session as it *)
(* was when the user set out.                                              *)
(***************************************************************************)
\* the ayahs tried for surah p: the first, the last and one of two digits
ScriptAyahs(p) == {n \in {1, 10, SurahAyahs[p]} : n <= SurahAyahs[p]}

RECURSIVE DigitPresses(_)
DigitPresses(digits) ==
  IF digits = <<>> THEN <<>>
  ELSE <<Update("callback", "digit:", <<Head(digits)>>)>> \o DigitPresses(Tail(digits))

Script(p, n) ==
  <<Update("command", "start", <<>>), Update("callback", "surah:", Itoa(p))>>
    \o DigitPresses(Itoa(n))
    \o <<Update("callback", "done", <<>>)>>

\* anything happens to the session
Wander ==
  /\ call = NoCall
  /\ Next

\* the user sets out to select ayah n of surah p
BeginScript(p, n) ==
  /\ call = NoCall
  /\ last = NoOutcome
  /\ call' = [fn |-> "script", arg |-> <<p, n>>, res |-> Script(p, n)]
  /\ base' = store
  /\ UNCHANGED <<store, last, tasks, peerStore, loop, ttl>>

\* the next update of the script is handled, with no failing call
ScriptStep ==
  /\ call.fn = "script"
  /\ call.res # <<>>
  /\ store' = Run(Head(call.res), store).st
  /\ call' = [call EXCEPT !.res = Tail(call.res)]
  /\ UNCHANGED <<last, tasks, base, peerStore, loop, ttl>>

NextRecover ==
  \/ Wander
  \/ \E p \in 1..NumSurahs : \E n \in ScriptAyahs(p) : BeginScript(p, n)
  \/ ScriptStep

SpecRecover == Init /\ [][NextRecover]_vars

(***************************************************************************)
(* SpecStop: the receive loop of Bot.Start around the shutdown.  After     *)
(* run() has cancelled the context updates may still be put on the channel *)
(* until Bot.Stop has stopped the polling, which closes the channel: the   *)
(* update case of the select is then always ready and yields zero updates. *)
(***************************************************************************)
\* an update of user i is put on the channel after the context was cancelled
ArriveLate(i, ev) ==
  /\ loop.state = "cancelled"
  /\ ~loop.closed
  /\ loop.updates[i] = NoUpdate
  /\ tasks[i].pc = "idle"
  /\ loop' = [loop EXCEPT !.updates[i] = ev]
  /\ UNCHANGED <<store, last, tasks, base, peerStore, call, ttl>>

\* Bot.Stop: StopReceivingUpdates ends the polling and the channel is closed
CloseChannel ==
  /\ loop.state \in {"cancelled", "returned"}
  /\ ~loop.closed
  /\ loop' = [loop EXCEPT !.closed = TRUE]
  /\ UNCHANGED <<store, last, tasks, base, peerStore, call, ttl>>

\* the select of Bot.Start takes the update case on the closed and drained
\* channel: it receives a zero update, whose goroutine returns at once
ReceiveZero ==
  /\ loop.state = "cancelled"
  /\ loop.closed
  /\ \A i \in Users : loop.updates[i] = NoUpdate
  /\ loop' = [loop EXCEPT !.zeroes = 1 - @]
  /\ UNCHANGED <<store, last, tasks, base, peerStore, call, ttl>>

NextStop ==
  \/ NextLoop
  \/ \E i \in Users : \E ev \in LoopUpdates(i) : ArriveLate(i, ev)
  \/ CloseChannel
  \/ ReceiveZero

\* select picks at random among its ready cases, so the ctx.Done case, which
\* stays ready once the context is cancelled, is taken sooner or later
SpecStop ==
  /\ InitLoop
  /\ [][NextStop]_vars
  /\ WF_vars(LoopReturn)

(***************************************************************************)
(* Vocabulary of the properties                                            *)
(***************************************************************************)
\* key k holds the same thing (or is absent) in both stores
SameKey(st1, st2, k) == (Has(st1, k) <=> Has(st2, k)) /\ (Has(st1, k) => st1[k] = st2[k])

\* this step is the handling of an update with this kind and tag
Handled(kind, tag) == last = NoOutcome /\ last' # NoOutcome /\ last'.ev.kind = kind /\ last'.ev.tag = tag

\* the update whose handling led to the current state
JustHandled(kind, tag) == last # NoOutcome /\ last.ev.kind = kind /\ last.ev.tag = tag

ValidSurah(p) == p >= 1 /\ p <= Len(GetAllSurahs)

ValidAyah(p, n) == ValidSurah(p) /\ n >= 1 /\ n <= GetAllSurahs[p]

\* the digit buffer as the handlers read it
Buffer(st) == IF Has(st, SessionKeyAyahInput) THEN st[SessionKeyAyahInput] ELSE <<>>

SelectedSurah(st) == IF Has(st, SessionKeySurah) THEN Atoi(st[SessionKeySurah]).val ELSE 0

SelectedAyah(st) == IF Has(st, SessionKeyAyah) THEN Atoi(st[SessionKeyAyah]).val ELSE 0

(***************************************************************************)
(* C1                                                                      *)
(***************************************************************************)
\* C1 (as claimed): the start command, with no failing call, sets the state to
\* select_surah, removes the selected surah, the selected ayah and the digit
\* buffer, and leaves the user's language what it was.
C1_StartResetsSession ==
  [][Handled("command", "start") /\ last'.fails = 0
       => /\ GetState(store') = StateSelectSurah
          /\ ~Has(store', SessionKeySurah)
          /\ ~Has(store', SessionKeyAyah)
          /\ ~Has(store', SessionKeyAyahInput)
          /\ GetUserLanguage(store', FALSE) = GetUserLanguage(store, FALSE)]_vars

\* C1 (amended): the start command, with no failing call, sets the state to
\* select_surah and stores the language the user had (the default one when
\* none was stored); the selected surah, the selected ayah and the digit
\* buffer are left exactly as they were, whichever calls fail.
C1_StartKeepsAttributes ==
  [][Handled("command", "start")
       => /\ SameKey(store, store', SessionKeySurah)
          /\ SameKey(store, store', SessionKeyAyah)
          /\ SameKey(store, store', SessionKeyAyahInput)
          /\ last'.fails = 0
               => /\ Has(store', StateKey) /\ store'[StateKey] = StateSelectSurah
                  /\ Has(store', SessionKeyLanguage)
                  /\ store'[SessionKeyLanguage] = GetUserLanguage(store, FALSE)]_vars

\* the start command has run on a session with a surah, an ayah, a digit buffer
\* and a language other than the default
C1_Witness ==
  /\ JustHandled("command", "start") /\ last.fails = 0
  /\ GetState(store) = StateSelectSurah
  /\ Has(store, SessionKeySurah) /\ Has(store, SessionKeyAyah)
  /\ Buffer(store) # <<>>
  /\ GetUserLanguage(store, FALSE) = LangArabic

(***************************************************************************)
(* C2                                                                      *)
(***************************************************************************)
\* C2: a voice message handled in state wait_recording: when the gateway takes
\* the submission (and no store call fails) the locator sent decodes to the
\* stored surah and ayah and the state becomes select_surah; when the audio
\* download/conversion or the gateway call fails, no submission is created and
\* the session, its state included, stays as it was (wait_recording).
C2_RecordingSubmitOrStay ==
  [][Handled("voice", "") /\ GetState(store) = StateWaitRecording
       => /\ (last'.created /\ ~last'.ioErr)
               => /\ parseAyahID(last'.loc) = <<SelectedSurah(store), SelectedAyah(store)>>
                  /\ GetState(store') = StateSelectSurah
                  /\ last'.reply = "recording.submitted"
          /\ ~last'.created
               => /\ store' = store
                  /\ GetState(store') = StateWaitRecording
                  /\ last'.reply \in {"error.audio_conversion", "error.recording_failed",
                                      "error.unexpected_voice"}]_vars

\* a recording has been submitted for surah 2, ayah 11 and the state was reset
C2_Witness ==
  /\ JustHandled("voice", "") /\ last.created
  /\ last.loc = <<"0", "0", "2", "0", "1", "1">>
  /\ GetState(store) = StateSelectSurah

\* the gateway call for a recording failed and the user is still in wait_recording
C2_WitnessFailed ==
  /\ JustHandled("voice", "") /\ ~last.created /\ last.loc # <<>>
  /\ last.reply = "error.recording_failed"
  /\ GetState(store) = StateWaitRecording

(***************************************************************************)
(* C3                                                                      *)
(***************************************************************************)
\* C3: confirm ("done") in state enter_ayah with a selected surah p and a digit
\* buffer that parses to n, 1 <= n <= ayahs(p), with no failing call: the
\* selected ayah becomes n, the digit buffer is removed, the state becomes
\* wait_recording and the selected surah is untouched.
C3_ConfirmValidAyah ==
  [][(/\ Handled("callback", "done") /\ last'.fails = 0
      /\ GetState(store) = StateEnterAyah
      /\ Has(store, SessionKeySurah) /\ Atoi(store[SessionKeySurah]).ok
      /\ Atoi(Buffer(store)).ok
      /\ ValidAyah(SelectedSurah(store), Atoi(Buffer(store)).val))
       => /\ Has(store', SessionKeyAyah)
          /\ Atoi(store'[SessionKeyAyah]).ok
          /\ SelectedAyah(store') = Atoi(Buffer(store)).val
          /\ ~Has(store', SessionKeyAyahInput)
          /\ GetState(store') = StateWaitRecording
          /\ SameKey(store, store', SessionKeySurah)
          /\ last'.reply = "recording.prompt"]_vars

\* confirm has stored ayah 1 of surah 1 and moved to wait_recording
C3_Witness ==
  /\ JustHandled("callback", "done") /\ last.reply = "recording.prompt"
  /\ GetState(store) = StateWaitRecording
  /\ SelectedSurah(store) = 1 /\ SelectedAyah(store) = 1
  /\ ~Has(store, SessionKeyAyahInput)

(***************************************************************************)
(* C4                                                                      *)
(***************************************************************************)
\* the digit buffer is empty, does not parse, or parses to a number below 1 or
\* above the ayah count of the selected surah
InvalidBuffer(st) ==
  LET a == Atoi(Buffer(st))
  IN \/ Buffer(st) = <<>>
     \/ ~a.ok
     \/ a.val < 1
     \/ /\ Has(st, SessionKeySurah) /\ Atoi(st[SessionKeySurah]).ok
        /\ ValidSurah(SelectedSurah(st))
        /\ a.val > GetAllSurahs[SelectedSurah(st)]

\* C4: confirm ("done") with an invalid digit buffer, whichever calls fail:
\* the session is left exactly as it was (state and selected ayah included),
\* no store write is issued, and the only effect is the error rendered (or
\* nothing rendered).
C4_ConfirmInvalidNoWrite ==
  [][Handled("callback", "done") /\ InvalidBuffer(store)
       => /\ store' = store
          /\ last'.writes = 0
          /\ last'.reply \in {"error.invalid_ayah", ""}]_vars

\* confirm was refused in state enter_ayah: buffer 11, surah 1 has 7 ayahs
C4_Witness ==
  /\ JustHandled("callback", "done") /\ last.reply = "error.invalid_ayah"
  /\ last.writes = 0
  /\ GetState(store) = StateEnterAyah
  /\ SelectedSurah(store) = 1
  /\ Buffer(store) = <<"1", "1">>

(***************************************************************************)
(* C5                                                                      *)
(***************************************************************************)
\* C5: a "surah:<arg>" callback.  When arg is a number p, 1 <= p <= number of
\* surahs, and no call fails: the selected surah becomes p, the digit buffer is
\* removed, the state becomes enter_ayah, selected ayah and language are
\* untouched.  When arg is not a number or p is out of range: the session is
\* left exactly as it was and no store write is issued.
C5_SurahSelection ==
  [][Handled("callback", "surah:")
       => LET a == Atoi(last'.ev.arg)
          IN /\ (a.ok /\ ValidSurah(a.val) /\ last'.fails = 0)
                  => /\ Has(store', SessionKeySurah)
                     /\ Atoi(store'[SessionKeySurah]).ok
                     /\ SelectedSurah(store') = a.val
                     /\ ~Has(store', SessionKeyAyahInput)
                     /\ GetState(store') = StateEnterAyah
                     /\ SameKey(store, store', SessionKeyAyah)
                     /\ SameKey(store, store', SessionKeyLanguage)
             /\ (~a.ok \/ ~ValidSurah(a.val))
                  => /\ store' = store
                     /\ last'.writes = 0]_vars

\* surah 2 has been selected over a session that had an ayah stored
C5_Witness ==
  /\ JustHandled("callback", "surah:") /\ last.ev.arg = <<"2">> /\ last.fails = 0
  /\ SelectedSurah(store) = 2
  /\ GetState(store) = StateEnterAyah
  /\ ~Has(store, SessionKeyAyahInput)
  /\ Has(store, SessionKeyAyah)

(***************************************************************************)
(* C6                                                                      *)
(***************************************************************************)
\* C6: the stored digit buffer always has at most 3 characters, each of them
\* one of 0-9.
C6_BufferDigitsMax3 ==
  Has(store, SessionKeyAyahInput)
    => /\ Len(store[SessionKeyAyahInput]) <= 3
       /\ \A i \in 1..Len(store[SessionKeyAyahInput]) : IsDigit(store[SessionKeyAyahInput][i])

(***************************************************************************)
(* C7                                                                      *)
(***************************************************************************)
FrameOfDigitEntry ==
  /\ SameKey(store, store', StateKey)
  /\ SameKey(store, store', SessionKeySurah)
  /\ SameKey(store, store', SessionKeyAyah)
  /\ SameKey(store, store', SessionKeyLanguage)

\* C7: a digit press (digit: followed by its argument), with no failing call,
\* appends exactly its argument to a
\* buffer shorter than 3 and changes nothing on a buffer of length 3 or more;
\* backspace, with no failing call, drops exactly the last character and
\* changes nothing on an empty buffer; whichever calls fail, neither touches
\* state, selected surah, selected ayah or language.
C7_DigitAndBackspace ==
  [][/\ (Handled("callback", "digit:") /\ last'.ev.arg # <<>>)
          => /\ FrameOfDigitEntry
             /\ last'.fails = 0
                  => IF Len(Buffer(store)) < 3
                     THEN /\ Has(store', SessionKeyAyahInput)
                          /\ store'[SessionKeyAyahInput] = Buffer(store) \o last'.ev.arg
                     ELSE store' = store
     /\ Handled("callback", "clear")
          => /\ FrameOfDigitEntry
             /\ last'.fails = 0
                  => IF Buffer(store) # <<>>
                     THEN /\ Has(store', SessionKeyAyahInput)
                          /\ store'[SessionKeyAyahInput] \o <<Buffer(store)[Len(Buffer(store))]>>
                               = Buffer(store)
                     ELSE store' = store]_vars

\* digit 1 has been appended, giving the buffer -1
C7_Witness ==
  /\ JustHandled("callback", "digit:") /\ last.ev.arg = <<"1">>
  /\ last.fails = 0 /\ last.writes = 1
  /\ Buffer(store) = <<"-", "1">>

\* backspace has left the buffer 1
C7_WitnessBackspace ==
  /\ JustHandled("callback", "clear") /\ last.fails = 0 /\ last.writes = 1
  /\ Buffer(store) = <<"1">>

(***************************************************************************)
(* C8                                                                      *)
(***************************************************************************)
\* C8: every locator sent to the gateway by a fixed-target submission names a
\* surah p, 1 <= p <= number of surahs, and an ayah n, 1 <= n <= ayahs(p).
C8_LocatorValid ==
  (last # NoOutcome /\ last.loc # <<>>)
    => ValidAyah(parseAyahID(last.loc)[1], parseAyahID(last.loc)[2])

(***************************************************************************)
(* C9                                                                      *)
(***************************************************************************)
\* C9: when the two goroutines of two updates of one user have both returned,
\* the session is one that handling the two updates one after the other, in
\* one of the two orders, can leave.
C9_SerialEquivalent ==
  (tasks[1].pc = "done" /\ tasks[2].pc = "done")
    => store \in SerialResults(tasks[1].ev, tasks[2].ev, base)
                   \cup SerialResults(tasks[2].ev, tasks[1].ev, base)

(***************************************************************************)
(* C10                                                                     *)
(***************************************************************************)
\* C10: when a store call fails inside a start, surah-selection, confirm or
\* voice transition, the stored state is afterwards what it was before and
\* the handler got an error back.
C10_StoreFailureAborts ==
  [][(/\ last = NoOutcome /\ last' # NoOutcome
      /\ last'.ioErr
      /\ \/ last'.ev.kind = "command" /\ last'.ev.tag = "start"
         \/ last'.ev.kind = "callback" /\ last'.ev.tag \in {"surah:", "done"}
         \/ last'.ev.kind = "voice")
       => /\ SameKey(store, store', StateKey)
          /\ last'.err]_vars

(***************************************************************************)
(* C11                                                                     *)
(***************************************************************************)
\* C11: a surah: callback handled while the state is not select_surah, and a
\* digit:, clear or done callback handled while the state is not enter_ayah,
\* leaves the whole session (state and attributes) as it was.
C11_WrongStateCallbackIgnored ==
  [][(/\ last = NoOutcome /\ last' # NoOutcome
      /\ last'.ev.kind = "callback"
      /\ \/ last'.ev.tag = "surah:" /\ GetState(store) # StateSelectSurah
         \/ last'.ev.tag \in {"digit:", "clear", "done"} /\ GetState(store) # StateEnterAyah)
       => store' = store]_vars

(***************************************************************************)
(* C12                                                                     *)
(***************************************************************************)
\* C12: a voice message handled in a state other than wait_recording and
\* wait_auto_detect, and a text message handled in a state other than
\* enter_ayah, whichever calls fail: no gateway call is made, no store write is
\* issued, the session (its state included) is left as it was, and only the
\* unexpected-voice, help or generic error message is rendered.
C12_UnexpectedVoiceOrText ==
  [][/\ (Handled("voice", "")
           /\ GetState(store) \notin {StateWaitRecording, StateWaitAutoDetect})
          => /\ store' = store
             /\ last'.writes = 0
             /\ last'.gateway = "" /\ ~last'.created /\ last'.loc = <<>>
             /\ last'.reply = "error.unexpected_voice"
     /\ (Handled("text", "") /\ GetState(store) # StateEnterAyah)
          => /\ store' = store
             /\ last'.writes = 0
             /\ last'.gateway = "" /\ ~last'.created /\ last'.loc = <<>>
             /\ last'.reply \in {"help.message", "error.generic"}]_vars

\* a voice message was refused in state enter_ayah, with a surah selected
C12_Witness ==
  /\ JustHandled("voice", "") /\ last.reply = "error.unexpected_voice"
  /\ GetState(store) = StateEnterAyah
  /\ Has(store, SessionKeySurah)

\* a text message got the help text in state wait_recording
C12_WitnessText ==
  /\ JustHandled("text", "") /\ last.reply = "help.message"
  /\ GetState(store) = StateWaitRecording

(***************************************************************************)
(* C13                                                                     *)
(***************************************************************************)
\* C13: partial expiry.  With the state key gone (other keys may linger) the
\* state reads as start without error: a voice message gets the
\* unexpected-voice reply and a text message the help text, not an error, and
\* the session is left as it was.  A confirm handled while no surah is stored
\* returns an error and writes nothing.  A voice message handled in
\* wait_recording while the surah or the ayah is not stored returns an error,
\* makes no gateway call and writes nothing.
C13_PartialExpiryTolerated ==
  [][/\ (Handled("voice", "") /\ ~Has(store, StateKey))
          => /\ store' = store
             /\ last'.reply = "error.unexpected_voice" /\ ~last'.err
     /\ (Handled("text", "") /\ ~Has(store, StateKey) /\ last'.fails = 0)
          => /\ store' = store
             /\ last'.reply = "help.message" /\ ~last'.err
     /\ (Handled("callback", "done") /\ ~Has(store, SessionKeySurah))
          => /\ store' = store
             /\ last'.writes = 0
             /\ last'.err
     /\ (Handled("voice", "") /\ GetState(store) = StateWaitRecording
           /\ (~Has(store, SessionKeySurah) \/ ~Has(store, SessionKeyAyah)))
          => /\ store' = store
             /\ last'.writes = 0
             /\ last'.gateway = "" /\ ~last'.created
             /\ last'.fails = 0 => (last'.err /\ last'.reply = "error.recording_failed")]_vars

\* a voice message arrived in wait_recording after the surah key had expired
\* (the ayah key still there) and was answered with an error
C13_Witness ==
  /\ JustHandled("voice", "") /\ last.err /\ last.fails = 0
  /\ GetState(store) = StateWaitRecording
  /\ ~Has(store, SessionKeySurah) /\ Has(store, SessionKeyAyah)

\* a text message arrived after the state key had expired while surah, ayah
\* and digit buffer were still stored
C13_WitnessState ==
  /\ JustHandled("text", "") /\ last.reply = "help.message"
  /\ ~Has(store, StateKey)
  /\ Has(store, SessionKeySurah) /\ Has(store, SessionKeyAyah)
  /\ Has(store, SessionKeyAyahInput)

(***************************************************************************)
(* C14                                                                     *)
(***************************************************************************)
\* the stored language, or the default one when none (or an empty one) is stored
StoredOrDefaultLanguage(st) ==
  IF Has(st, SessionKeyLanguage) /\ st[SessionKeyLanguage] # <<>>
  THEN st[SessionKeyLanguage]
  ELSE LangEnglish

\* C14: for a voice message, a text message or a callback other than lang:,
\* the language the handler works with is the stored language (the default one
\* when none is stored) when the lookup succeeds and the default language when
\* the lookup fails; the language key is not written; and when the lookup is
\* the only call that fails, the handler goes on to the same reply and the same
\* session as without the failure.  A command handled with no failing call
\* works with the stored-or-default language too.
C14_LanguageLookup ==
  [][/\ (/\ last = NoOutcome /\ last' # NoOutcome
         /\ last'.ev.kind \in {"voice", "text", "callback"}
         /\ last'.ev.tag # "lang:")
          => /\ ~last'.langErr => last'.lang = StoredOrDefaultLanguage(store)
             /\ last'.langErr => last'.lang = LangEnglish
             /\ SameKey(store, store', SessionKeyLanguage)
             /\ (last'.langErr /\ last'.fails = 1)
                  => /\ store' = RunWith(last'.ev, last'.history, store).st
                     /\ last'.reply = RunWith(last'.ev, last'.history, store).t.reply
     /\ (/\ last = NoOutcome /\ last' # NoOutcome
         /\ last'.ev.kind = "command" /\ last'.fails = 0)
          => last'.lang = StoredOrDefaultLanguage(store)]_vars

\* the lookup failed for a digit press of a user whose language is Arabic: the
\* handler went on with the default language and stored the digit
C14_Witness ==
  /\ JustHandled("callback", "digit:") /\ last.langErr /\ last.fails = 1
  /\ last.lang = LangEnglish
  /\ Has(store, SessionKeyLanguage) /\ store[SessionKeyLanguage] = LangArabic
  /\ last.writes = 1

\* a text message of a user with no stored language was handled in the default
\* language
C14_WitnessAbsent ==
  /\ JustHandled("text", "") /\ ~last.langErr /\ last.lang = LangEnglish
  /\ ~Has(store, SessionKeyLanguage)
  /\ Has(store, StateKey)

(***************************************************************************)
(* C15                                                                     *)
(***************************************************************************)
UpdateKinds == {"command", "voice", "callback", "text"}

\* C15: every update handled goes to the one handler its parts select with the
\* priority command, voice, callback, text; an update that names no sender is
\* dropped before any call is made, and one with a sender and none of the four
\* parts after the language lookup: neither writes to the store, calls the
\* gateway or renders a reply.
C15_DispatchPriority ==
  [][(last = NoOutcome /\ last' # NoOutcome)
       => /\ last'.handler =
               IF ~last'.ev.from THEN ""
               ELSE IF "command" \in last'.ev.parts THEN "handleCommand"
               ELSE IF "voice" \in last'.ev.parts THEN "handleVoice"
               ELSE IF "callback" \in last'.ev.parts THEN "handleCallback"
               ELSE IF "text" \in last'.ev.parts THEN "handleText"
               ELSE ""
          /\ (~last'.ev.from \/ last'.ev.parts \cap UpdateKinds = {})
               => /\ store' = store
                  /\ last'.writes = 0
                  /\ last'.gateway = "" /\ ~last'.created
                  /\ last'.reply = ""
          /\ ~last'.ev.from => last'.fails = 0]_vars

\* an update carrying both a voice message and a callback query went to
\* handleVoice, which submitted the recording
C15_Witness ==
  /\ last # NoOutcome
  /\ last.ev.parts = {"voice", "callback"}
  /\ last.handler = "handleVoice"
  /\ last.created

\* an update without sender was dropped while a session was under way
C15_WitnessDropped ==
  /\ last # NoOutcome
  /\ ~last.ev.from /\ last.handler = "" /\ last.reply = ""
  /\ GetState(store) = StateWaitRecording

(***************************************************************************)
(* C16                                                                     *)
(***************************************************************************)
\* C16: a callback whose data is none the bot has a branch for (noop, or a
\* prefix such as digit: or surah: with nothing after it) is dropped after it
\* was answered, whichever calls fail: the session is left as it was, no store
\* write is issued, the gateway is not called and nothing is rendered.
C16_UnknownCallbackDropped ==
  [][(/\ last = NoOutcome /\ last' # NoOutcome
      /\ last'.ev.kind = "callback"
      /\ \/ last'.ev.tag = "noop"
         \/ last'.ev.tag \in {"lang:", "surah:", "digit:"} /\ last'.ev.arg = <<>>)
       => /\ last'.handler = "handleCallback"
          /\ store' = store
          /\ last'.writes = 0
          /\ last'.gateway = "" /\ ~last'.created
          /\ last'.reply = ""]_vars

\* the callback digit: with no digit was dropped while digits were being entered
C16_Witness ==
  /\ JustHandled("callback", "digit:") /\ last.ev.arg = <<>>
  /\ last.reply = "" /\ last.writes = 0
  /\ GetState(store) = StateEnterAyah
  /\ Buffer(store) = <<"1">>

\* the callback noop was dropped
C16_WitnessNoop ==
  /\ JustHandled("callback", "noop") /\ last.reply = ""
  /\ GetState(store) = StateSelectSurah

(***************************************************************************)
(* C19                                                                     *)
(***************************************************************************)
\* C19: whenever a recpage: or backtorecs callback has formatted the history
\* list, whatever its length and the page asked for, the window it reads
\* satisfies 0 <= start <= end <= length and no index outside the list is
\* read (the update is not fatal).
C19_PageWindowInBounds ==
  last.listed =>
    /\ 0 <= last.start
    /\ last.start <= last.end
    /\ last.end <= last.history
    /\ ~last.panic

(***************************************************************************)
(* C20                                                                     *)
(***************************************************************************)
\* the update switches to auto-detect mode: the command or one of the buttons
AutoDetectRequest(ev) ==
  \/ ev.kind = "command" /\ ev.tag = "autodetect"
  \/ ev.kind = "callback" /\ ev.tag \in {"mode_autodetect", "new_autodetect"}

\* C20: the auto-detect command or mode button, handled in any state with no
\* failing call, sets the state to wait_auto_detect and leaves the attributes
\* as they were.  A voice message handled in state wait_auto_detect never goes
\* through the fixed-target submission, whichever calls fail; with no failing
\* call it is submitted to the auto-detect endpoint with no locator and the
\* state is reset to start, the attributes staying as they were.
C20_AutoDetectMode ==
  [][/\ (/\ last = NoOutcome /\ last' # NoOutcome
         /\ AutoDetectRequest(last'.ev) /\ last'.fails = 0)
          => /\ GetState(store') = StateWaitAutoDetect
             /\ \A k \in DataKeys : SameKey(store, store', k)
     /\ (Handled("voice", "") /\ GetState(store) = StateWaitAutoDetect)
          => /\ last'.gateway # "HandleRecording.SubmitRecording"
             /\ last'.loc = <<>>
             /\ \A k \in DataKeys : SameKey(store, store', k)
             /\ last'.fails = 0
                  => /\ last'.gateway = "HandleAutoDetectRecording.SubmitAutoDetect"
                     /\ last'.created
                     /\ GetState(store') = StateStart]_vars

\* a voice message of a user in auto-detect mode, who has a surah and an ayah
\* selected from before, was submitted for auto-detection
C20_Witness ==
  /\ JustHandled("voice", "")
  /\ last.gateway = "HandleAutoDetectRecording.SubmitAutoDetect"
  /\ last.created /\ last.fails = 0
  /\ GetState(store) = StateStart
  /\ Has(store, SessionKeySurah) /\ Has(store, SessionKeyAyah)

\* the mode button was pressed while a recording was awaited
C20_WitnessButton ==
  /\ JustHandled("callback", "mode_autodetect")
  /\ last.fails = 0
  /\ GetState(store) = StateWaitAutoDetect
  /\ Has(store, SessionKeyAyah)

(***************************************************************************)
(* C17                                                                     *)
(***************************************************************************)
\* C17: a submission of user 1 that fails (the client timeout included) ends
\* the handler with the error reply and leaves user 1's session, in state
\* wait_recording, as it was; and an update of user 2 that is on the channel
\* is handled to completion (unless the bot is shut down), without user 1's
\* goroutine ever having to make progress.
C17_OtherUsersServed ==
  /\ [][(/\ tasks[1].pc = "HandleRecording.SubmitRecording"
         /\ tasks'[1].fails > tasks[1].fails)
          => /\ tasks'[1].pc = "done"
             /\ tasks'[1].err /\ ~tasks'[1].created
             /\ tasks'[1].reply = "error.recording_failed"
             /\ store' = store
             /\ GetState(store') = StateWaitRecording]_vars
  /\ (loop.updates[2] # NoUpdate)
       ~> (tasks[2].pc = "done" \/ loop.state # "running")

\* user 1's goroutine is waiting for the gateway while the start command of
\* user 2 has been handled and has moved user 2 to select_surah
C17_Witness ==
  /\ loop.state = "running"
  /\ tasks[1].pc = "HandleRecording.SubmitRecording"
  /\ tasks[2].pc = "done" /\ tasks[2].ev = Update("command", "start", <<>>)
  /\ tasks[2].fails = 0
  /\ GetState(peerStore) = StateSelectSurah

\* the submission of user 1 has failed and user 1 still awaits a recording
C17_WitnessTimeout ==
  /\ loop.state = "running"
  /\ tasks[1].pc = "done" /\ tasks[1].gateway = "HandleRecording.SubmitRecording"
  /\ tasks[1].fails = 1 /\ tasks[1].err
  /\ GetState(store) = StateWaitRecording

(***************************************************************************)
(* C18                                                                     *)
(***************************************************************************)
\* C18: once the context of the loop is cancelled no goroutine is started for
\* an update, and no call of a goroutine in flight is cancelled or cut short.
C18_ShutdownLeavesTasksAlone ==
  [][/\ (loop.state # "running")
          => \A i \in Users : (tasks[i].pc = "idle" => tasks'[i].pc = "idle")
     /\ loop'.interrupted = {}]_vars

(***************************************************************************)
(* C21                                                                     *)
(***************************************************************************)
\* the decoded result holds nothing but the legacy fields wer and ops
LegacyOnly(r) ==
  /\ r.status = "" /\ r.detection_method = "" /\ r.starting_ayah = ""
  /\ r.detection_confidence = "" /\ r.hypothesis = "" /\ r.error = ""
  /\ r.detected_range = Nil /\ r.overall_statistics = Nil /\ r.per_ayah_results = Nil
  /\ r.ops # Nil

\* the mapped operation carries every field of the decoded one
SameOperation(o, raw) ==
  /\ o.RefAr = raw.ref_ar /\ o.RefClean = raw.ref_clean
  /\ o.HypAr = raw.hyp_ar /\ o.HypClean = raw.hyp_clean
  /\ o.Op = raw.op /\ o.TStart = raw.t_start /\ o.TEnd = raw.t_end

\* C21: mapping a result that holds only the legacy fields gives a result with
\* no overall statistics, no detected range, no per-ayah results and empty
\* detection fields, whose operations are as many as the input ops, in the
\* same order, each with every field copied, and whose error rate is the
\* input's.
C21_LegacyMapped ==
  (/\ call.fn = "mapRecording"
   /\ call.arg.result # Nil
   /\ LegacyOnly(call.arg.result[1]))
    => LET raw == call.arg.result[1]
           res == call.res.Result[1]
       IN /\ call.res.Result # Nil
          /\ res.OverallStatistics = Nil
          /\ res.DetectedRange = Nil
          /\ res.PerAyahResults = Nil
          /\ res.DetectionMethod = "" /\ res.StartingAyah = ""
          /\ res.DetectionConfidence = "" /\ res.Status = ""
          /\ res.WER = raw.wer
          /\ Len(Elems(res.Ops)) = Len(Elems(raw.ops))
          /\ \A i \in 1..Len(Elems(raw.ops)) :
               SameOperation(Elems(res.Ops)[i], Elems(raw.ops)[i])

\* a legacy result with two different operations has been mapped
C21_Witness ==
  /\ call.fn = "mapRecording"
  /\ call.arg.result # Nil
  /\ LegacyOnly(call.arg.result[1])
  /\ Len(Elems(call.arg.result[1].ops)) = 2
  /\ call.arg.result[1].ops[1][1] # call.arg.result[1].ops[1][2]
  /\ Len(Elems(call.res.Result[1].Ops)) = 2

(***************************************************************************)
(* C22                                                                     *)
(***************************************************************************)
\* C22: mapping a result with a detection method and an empty per_ayah_results
\* array gives a result that carries the detection method and whose per-ayah
\* results are the empty sequence, which is not the absent value.
C22_EmptyPerAyahKept ==
  (/\ call.fn = "mapRecording"
   /\ call.arg.result # Nil
   /\ call.arg.result[1].detection_method # ""
   /\ call.arg.result[1].per_ayah_results = Some(<<>>))
    => /\ call.res.Result # Nil
       /\ call.res.Result[1].DetectionMethod = call.arg.result[1].detection_method
       /\ call.res.Result[1].PerAyahResults = Some(<<>>)
       /\ call.res.Result[1].PerAyahResults # Nil

(***************************************************************************)
(* C23                                                                     *)
(***************************************************************************)
\* the decoded result is the empty object: every field at its zero value
EmptyObject(r) ==
  /\ r.status = "" /\ r.detection_method = "" /\ r.starting_ayah = ""
  /\ r.detection_confidence = "" /\ r.hypothesis = "" /\ r.error = ""
  /\ r.suggestion = "" /\ r.transcript = ""
  /\ r.processing_time = 0 /\ r.transcript_length = 0 /\ r.wer = 0
  /\ r.detected_range = Nil /\ r.overall_statistics = Nil
  /\ r.per_ayah_results = Nil /\ r.ops = Nil

\* the mapped result: empty status, nothing optional, zero values
NotYetProcessed(res) ==
  /\ res.Status = ""
  /\ res.DetectedRange = Nil /\ res.OverallStatistics = Nil
  /\ res.PerAyahResults = Nil /\ res.Ops = Nil
  /\ res.DetectionMethod = "" /\ res.StartingAyah = "" /\ res.DetectionConfidence = ""
  /\ res.Hypothesis = "" /\ res.Error = "" /\ res.Suggestion = "" /\ res.Transcript = ""
  /\ res.ProcessingTime = 0 /\ res.TranscriptLength = 0 /\ res.WER = 0

\* C23: mapping the empty result object gives a result (not an error) with
\* empty status, with detected range, overall statistics, per-ayah results and
\* operations absent, and with every number 0 and every string empty.
C23_EmptyObjectMapped ==
  (/\ call.fn = "mapRecording"
   /\ call.arg.result # Nil
   /\ EmptyObject(call.arg.result[1]))
    => /\ call.res.Result # Nil
       /\ NotYetProcessed(call.res.Result[1])

\* the empty result object of a queued recording has been mapped
C23_Witness ==
  /\ call.fn = "mapRecording"
  /\ call.arg.result # Nil
  /\ EmptyObject(call.arg.result[1])
  /\ call.arg.status = StatusQueued
  /\ call.res.Result # Nil

(***************************************************************************)
(* C24                                                                     *)
(***************************************************************************)
\* C24: the details rendered for a recording whose result has an empty status
\* and nothing optional show the still-processing message and neither an
\* error nor result figures.
C24_EmptyResultShowsProcessing ==
  (/\ call.fn = "formatRecordingDetails"
   /\ call.arg.Result # Nil
   /\ NotYetProcessed(call.arg.Result[1]))
    => /\ "recording.processing" \in call.res
       /\ call.res \cap {"error", "no_match", "wer", "accuracy", "recording.results"} = {}

(***************************************************************************)
(* C25                                                                     *)
(***************************************************************************)
\* C25: the id formatted for surah p (1..MaxSurah) and ayah n (1..MaxAyah,
\* which covers every ayah of every surah) is six digits, the surah number
\* zero-padded to three followed by the ayah number zero-padded to three, and
\* parsing it gives back exactly (p, n).
C25_LocatorRoundTrip ==
  [][/\ (call'.fn = "FormatAyahID")
          => /\ Len(call'.res) = 6
             /\ \A i \in 1..6 : IsDigit(call'.res[i])
             /\ DigitsValue(SubSeq(call'.res, 1, 3)) = call'.arg[1]
             /\ DigitsValue(SubSeq(call'.res, 4, 6)) = call'.arg[2]
     /\ (call.fn = "FormatAyahID" /\ call'.fn = "parseAyahID")
          => call'.res = call.arg]_vars

\* the id of ayah 286 of surah 114 has been formatted and parsed back
C25_Witness ==
  /\ call.fn = "parseAyahID"
  /\ call.arg = <<"1", "1", "4", "2", "8", "6">>
  /\ call.res = <<114, 286>>

(***************************************************************************)
(* C26                                                                     *)
(***************************************************************************)
\* C26: parsing a string whose length is not 6, or that holds a character
\* that is not a digit, gives (0, 0).
C26_MalformedLocatorIsZero ==
  (/\ call.fn = "parseAyahID"
   /\ \/ Len(call.arg) # 6
      \/ \E i \in 1..Len(call.arg) : ~IsDigit(call.arg[i]))
    => call.res = <<0, 0>>

(***************************************************************************)
(* C27                                                                     *)
(***************************************************************************)
\* every key but k has the same value and the same time left after the step
OtherKeysUntouched(k) ==
  /\ DOMAIN store' \ {k} = DOMAIN store \ {k}
  /\ \A j \in DOMAIN store \ {k} : store'[j] = store[j] /\ ttl'[j] = ttl[j]

\* C27: a SetState or SetData that succeeds stores the value with the full
\* time to live, whatever time the key had left, and touches no other key; a
\* read changes no value and no time to live; a tick of the clock takes one
\* tick from every key and drops exactly the keys that had one tick left,
\* whatever the other keys have left; every stored key has between 1 and the
\* full number of ticks left; and reading a key that is gone gives the state
\* start for the state key and "not found" for a data key.
C27_TTLRefreshedOnWrite ==
  [][/\ DOMAIN ttl' = DOMAIN store'
     /\ \A k \in DOMAIN ttl' : ttl'[k] >= 1 /\ ttl'[k] <= TTLTicks
     /\ (call'.fn \in {"SetState", "SetData"} /\ call'.res)
          => /\ Has(store', call'.arg[1])
             /\ store'[call'.arg[1]] = call'.arg[2]
             /\ ttl'[call'.arg[1]] = TTLTicks
             /\ OtherKeysUntouched(call'.arg[1])
     /\ (call'.fn \in {"GetState", "GetData"})
          => /\ store' = store
             /\ ttl' = ttl
     /\ (call'.fn = "Tick")
          => \A k \in DOMAIN store :
               IF ttl[k] = 1 THEN ~Has(store', k)
               ELSE Has(store', k) /\ store'[k] = store[k] /\ ttl'[k] = ttl[k] - 1
     /\ (call'.fn = "GetState" /\ ~Has(store, StateKey) /\ call'.res # "error")
          => call'.res = StateStart
     /\ (call'.fn = "GetData" /\ ~Has(store, call'.arg[1]))
          => ~call'.res.ok]_vars

\* the surah key, about to expire, has been written again and has the full
\* time to live, while the state key written with it has one tick left
C27_Witness ==
  /\ call.fn = "SetData" /\ call.res /\ call.arg[1] = SessionKeySurah
  /\ Has(store, StateKey) /\ ttl[StateKey] = 1
  /\ ttl[SessionKeySurah] = TTLTicks

\* the state key has expired while the surah key lives on, and the state is
\* read as start
C27_WitnessExpired ==
  /\ call.fn = "GetState" /\ call.res = StateStart
  /\ ~Has(store, StateKey)
  /\ Has(store, SessionKeySurah)

(***************************************************************************)
(* C28                                                                     *)
(***************************************************************************)
\* C28: a check: or viewrec: callback for which the gateway returns no
\* recording, whichever calls fail: the lookup ends in an error, the user is
\* shown the not-found message, no store write is issued and the session
\* (state and attributes) is left as it was.
C28_RecordingNotFound ==
  [][(/\ last = NoOutcome /\ last' # NoOutcome
      /\ last'.ev \in DetailCallbacks
      /\ last'.history = 0)
       => /\ last'.gateway \in {"handleCheckRecording.GetRecording",
                                "handleViewRecording.GetRecording"}
          /\ last'.err
          /\ last'.reply = "error.recording_not_found"
          /\ last'.writes = 0
          /\ store' = store]_vars

\* the status of a recording the gateway does not have was asked for by a
\* user who awaits a recording
C28_Witness ==
  /\ JustHandled("callback", "check:")
  /\ last.history = 0 /\ last.fails = 0
  /\ last.reply = "error.recording_not_found"
  /\ GetState(store) = StateWaitRecording
  /\ Has(store, SessionKeyAyah)

\* the details of a recording the gateway does not have were asked for
C28_WitnessView ==
  /\ JustHandled("callback", "viewrec:")
  /\ last.history = 0 /\ last.fails = 0
  /\ last.reply = "error.recording_not_found"

(***************************************************************************)
(* C29                                                                     *)
(***************************************************************************)
\* d appended to b under the length guard of the handler
Appended(b, d) == IF Len(b) < 3 THEN b \o d ELSE b

IsPrefix(b, c) == Len(b) <= Len(c) /\ SubSeq(c, 1, Len(b)) = b

\* both goroutines handled a digit press and returned, and none of their
\* calls failed
BothTapped ==
  /\ \A i \in Tasks : /\ tasks[i].pc = "done"
                      /\ tasks[i].fails = 0
                      /\ tasks[i].ev \in TapUpdates

\* C29: when two digit presses d1 and d2 of one user are handled concurrently
\* (every interleaving of their store calls, none of which fails)
\* on a stored buffer b shorter than 3, the buffer left behind is b+d1, b+d2,
\* b+d1+d2 or b+d2+d1 (each append under the length-3 guard); it is never
\* longer than 3 and it starts with b.
C29_DoubleTap ==
  (BothTapped /\ Len(Buffer(base)) < 3)
    => LET b == Buffer(base)
           d1 == tasks[1].ev.arg
           d2 == tasks[2].ev.arg
       IN /\ Buffer(store) \in {Appended(b, d1), Appended(b, d2),
                                Appended(Appended(b, d1), d2),
                                Appended(Appended(b, d2), d1)}
          /\ Len(Buffer(store)) <= 3
          /\ IsPrefix(b, Buffer(store))

\* a lost update: both presses read b, the second write replaced the first
C29_Witness ==
  /\ BothTapped
  /\ Len(Buffer(base)) < 3
  /\ tasks[1].ev.arg # tasks[2].ev.arg
  /\ tasks[1].input = Buffer(base) \o tasks[1].ev.arg
  /\ tasks[2].input = Buffer(base) \o tasks[2].ev.arg
  /\ Buffer(store) = Buffer(base) \o tasks[1].ev.arg

\* both presses kept: the second goroutine read what the first had written
C29_WitnessBoth ==
  /\ BothTapped
  /\ Len(Buffer(base)) = 1
  /\ Buffer(store) = (Buffer(base) \o tasks[2].ev.arg) \o tasks[1].ev.arg

(***************************************************************************)
(* C30                                                                     *)
(***************************************************************************)
\* C30: after a voice message handled by HandleRecording, the user is told
\* the recording failed only if no submission was created at the gateway, and
\* every created submission is reported with recording.submitted and its
\* identifier.
C30_FailureMeansNoSubmission ==
  (/\ JustHandled("voice", "")
   /\ last.reply \in {"error.recording_failed", "recording.submitted"})
    => (last.created <=> (~last.err /\ last.reply = "recording.submitted"))

(***************************************************************************)
(* C31                                                                     *)
(***************************************************************************)
\* C31: of two voice messages of one user handled concurrently after one
\* confirmed selection (one entry into wait_recording), at most one creates
\* a submission at the gateway.
C31_AtMostOneSubmission ==
  (GetState(base) = StateWaitRecording)
    => ~(tasks[1].created /\ tasks[2].created)

(***************************************************************************)
(* C32                                                                     *)
(***************************************************************************)
SupportedLanguages == {LangEnglish, LangArabic, LangRussian}

\* C32: after any sequence of events the stored language is one of the
\* supported tags en, ar, ru (a lang:X callback stores X and sets the state
\* to select_surah, leaving surah, ayah and ayah input as they were).
C32_LanguageSupported ==
  /\ Has(store, SessionKeyLanguage)
       => store[SessionKeyLanguage] \in SupportedLanguages
  /\ (JustHandled("callback", "lang:") /\ last.fails = 0)
       => /\ GetState(store) = StateSelectSurah
          /\ store[SessionKeyLanguage] = last.ev.arg

(***************************************************************************)
(* C33                                                                     *)
(***************************************************************************)
\* the states a session is ever left in
PersistedStates == States \ {StateProcessing}

\* C33: in every reachable state the stored state value (and the state read
\* from a session without one) belongs to the state enumeration, and it is
\* never processing.
C33_StateInEnumeration ==
  /\ GetState(store) \in PersistedStates
  /\ Has(store, StateKey) => store[StateKey] \in PersistedStates

\* a submission has just been created and the session is back in select_surah
C33_Witness ==
  /\ JustHandled("voice", "")
  /\ last.created /\ ~last.err
  /\ Has(store, StateKey) /\ store[StateKey] = StateSelectSurah

(***************************************************************************)
(* C34                                                                     *)
(***************************************************************************)
\* C34: with no expired key, under every interleaving of the store calls of
\* two concurrent updates of one user (failing calls included), a session in
\* enter_ayah or wait_recording has a selected surah and a session in
\* wait_recording has a selected ayah.
C34_AttributesBeforeState ==
  /\ (GetState(store) \in {StateEnterAyah, StateWaitRecording})
       => Has(store, SessionKeySurah)
  /\ (GetState(store) = StateWaitRecording)
       => Has(store, SessionKeyAyah)

\* the session has reached wait_recording while the other goroutine of the
\* same user is still between two of its calls
C34_Witness ==
  /\ GetState(store) = StateWaitRecording
  /\ GetState(base) # StateWaitRecording
  /\ \E i \in Tasks : tasks[i].pc \notin {"idle", "done", "handleUpdate.GetUserLanguage"}

(***************************************************************************)
(* C35                                                                     *)
(***************************************************************************)
SameSelection(st1, st2) ==
  /\ GetState(st1) = GetState(st2)
  /\ SameKey(st1, st2, SessionKeySurah)
  /\ SameKey(st1, st2, SessionKeyAyah)

\* both users have entered the number, each in their own way
BothEntered == last # NoOutcome /\ call.fn = "handleAyahDone"

\* C35: in enter_ayah, a number sent as text and the same number keyed in on
\* the digit keyboard and confirmed end, for every input, with the same state,
\* selected surah and selected ayah.
C35_TextEqualsKeypad ==
  BothEntered => SameSelection(store, peerStore)

(***************************************************************************)
(* C36                                                                     *)
(***************************************************************************)
ScriptDone == call.fn = "script" /\ call.res = <<>>

\* C36: from every reachable session, the updates start, surah p, the digits
\* of a valid ayah n, done, handled with no failing call, leave the session in
\* wait_recording with selected surah p and selected ayah n.
C36_NoDeadEnd ==
  ScriptDone
    => /\ GetState(store) = StateWaitRecording
       /\ GetData(store, SessionKeySurah) = [ok |-> TRUE, val |-> Itoa(call.arg[1])]
       /\ GetData(store, SessionKeyAyah) = [ok |-> TRUE, val |-> Itoa(call.arg[2])]

\* the script was run on a session that waited for a recording of another
\* ayah of another surah and had a full ayah input left over
C36_Witness ==
  /\ ScriptDone
  /\ call.arg = <<2, 10>>
  /\ GetState(base) = StateWaitRecording
  /\ GetData(base, SessionKeySurah).val = <<"1">>
  /\ GetData(base, SessionKeyAyah).val = <<"1">>
  /\ Len(Buffer(base)) = 3
  /\ GetState(store) = StateWaitRecording
  /\ GetData(store, SessionKeyAyah).val = <<"1", "0">>

\* the script was run on a session whose keys had all expired but the ayah
\* input
C36_WitnessExpired ==
  /\ ScriptDone
  /\ ~Has(base, StateKey) /\ ~Has(base, SessionKeySurah)
  /\ Buffer(base) # <<>>
  /\ GetState(store) = StateWaitRecording

(***************************************************************************)
(* C37                                                                     *)
(***************************************************************************)
\* C37 as stated: after the shutdown signal Bot.Start eventually returns.
C37_StartReturns ==
  (loop.state = "cancelled") ~> (loop.state = "returned")

\* C37: after the shutdown signal the receive loop ends, whether updates keep
\* arriving or the channel was closed by Bot.Stop: Bot.Start returns, unless
\* the process has ended before it did.
C37_LoopEnds ==
  (loop.state = "cancelled") ~> (loop.state \in {"returned", "exited"})

\* Bot.Start has returned after it received updates that arrived after the
\* cancellation and zero updates from the closed channel
C37_Witness ==
  /\ loop.state = "returned"
  /\ loop.closed
  /\ loop.zeroes = 1
  /\ \E i \in Users : tasks[i].pc # "idle"
====
